---- MODULE Spec2Model ----
(***************************************************************************)
(* TransactionManager (backend/src/utils/TransactionManager.ts): one       *)
(* caller invoking execute, executeDependent and executeWithRetry against  *)
(* a TypeORM QueryRunner.  Every await of the source is one step of the    *)
(* model: the variable pc names the call the invocation is waiting for.    *)
(* execute (lines 28-65) and executeDependent (lines 136-168) share their  *)
(* try/catch/finally; execute is the one-operation case whose failure is   *)
(* rethrown unwrapped and whose single result is returned bare.  The       *)
(* caller passes no context object, so line 37 finds no transaction.       *)
(* QueryRunner calls may reject: connect, startTransaction, commit and     *)
(* rollback; a rejected rollback means the connection is lost, and the     *)
(* store then discards what the transaction wrote.                         *)
(***************************************************************************)
EXTENDS Integers, Sequences, FiniteSets, TLC

\* ------------------------------------------------------------------ bounds
MaxSteps == 3          \* longest operations array handed to executeDependent
MaxCalls == 1          \* invocations made by the caller in one behaviour
MaxRetryConfig == 3    \* largest maxRetries passed to setRetryConfig
MaxBelowZero == 1      \* setRetryConfig is passed maxRetries down to -MaxBelowZero
MaxNested == 2         \* most nested execute calls one step makes
MaxChanges == 1        \* most setRetryConfig calls made while one call is in flight
MaxBackoffRetries == 28 \* largest maxRetries of the backoff timers

\* ------------------------------------------------------- program constants
DefaultMaxRetries == 3
DefaultRetryDelayMs == 100

\* --------------------------------------------------------------- messages
\* An error message is a sequence of words; includes() is a word search.
MsgNotFound == <<"User", "not", "found">>
MsgUserExists == <<"User", "already", "exists">>
MsgTodoNotFound == <<"Todo", "not", "found">>
MsgUpdateTodoFailed == <<"Failed", "to", "update", "todo">>
MsgEmailPasswordRequired == <<"Email", "and", "password", "are", "required">>
MsgTodoTextRequired == <<"Todo", "text", "is", "required">>
\* what reading `results` inside the step throws while the const is still
\* being initialised: a ReferenceError, or, in a build that lowers const to
\* var, a TypeError on undefined[1]
MsgBeforeInitialization == <<"Cannot", "access", "'results'", "before", "initialization">>
MsgUndefinedRead == <<"Cannot", "read", "properties", "of", "undefined">>

HTTP_CREATED == 201
HTTP_BAD_REQUEST == 400
HTTP_NOT_FOUND == 404
HTTP_CONFLICT == 409
HTTP_INTERNAL_SERVER_ERROR == 500
MsgDeadlock == <<"Deadlock", "found">>
MsgConnection == <<"Connection", "terminated">>
MsgRollback == <<"Rollback", "failed">>
MsgQueryFailed == <<"Query", "failed">>
MsgAfterRetries == <<"Transaction", "failed", "after", "retries">>
\* what the store reports for the other two kinds of conflict
MsgSerialization == <<"could", "not", "serialize", "access">>
MsgLockTimeout == <<"Lock", "wait", "timeout", "exceeded">>
\* a precondition failure whose text happens to hold the word
MsgDeadlockNotFound == <<"Todo", "deadlock", "not", "found">>

Values == {"v1", "v2"}
StepMsgs == {MsgNotFound, MsgDeadlock, MsgSerialization, MsgLockTimeout,
             MsgDeadlockNotFound}
ValidationMsgs == {MsgNotFound, MsgDeadlockNotFound}
ConflictMsgs == {MsgDeadlock, MsgSerialization, MsgLockTimeout}
CommitMsgs == {MsgConnection, MsgDeadlock}
DelayChoices == {DefaultRetryDelayMs, 50}

NoError == [msg |-> <<>>, at |-> "none"]
MkError(m, where) == [msg |-> m, at |-> where]

\* String(results.length + 1) inside the template literal
Digits == <<"1", "2", "3", "4", "5", "6", "7", "8", "9">>
NumToString(k) == IF k \in 1..Len(Digits) THEN Digits[k] ELSE "0"

\* `Dependent transaction failed at step ${results.length + 1}: ${error.message}`
StepNumber(res) == NumToString(Len(res) + 1)
DependentMessage(res, cause) ==
    <<"Dependent", "transaction", "failed", "at", "step", StepNumber(res), ":">> \o cause

\* a comparison that leaves the case of the message alone
ToLowerCase_Identity(w) == w
\* String.prototype.toLowerCase on one word
ToLowerCase(w) ==
    CASE w = "Deadlock" -> "deadlock"
      [] w = "Lock" -> "lock"
      [] w = "Todo" -> "todo"
      [] w = "Connection" -> "connection"
      [] w = "Rollback" -> "rollback"
      [] w = "User" -> "user"
      [] w = "Dependent" -> "dependent"
      [] w = "Transaction" -> "transaction"
      [] OTHER -> w

\* isDeadlockError(error)
isDeadlockError(error) ==
    \E i \in 1..Len(error.msg) :
        ToLowerCase(error.msg[i]) \in {"deadlock", "wait-for graph", "1213"}

\* Math.pow(2, attempt - 1) scaled by retryDelayMs
BackoffDelay(base, att) == base * (2 ^ (att - 1))

\* the longest duration a timer takes, in ms (2^31 - 1)
TIMEOUT_MAX == 2147483647

\* base * 2^(att-1) is more than TIMEOUT_MAX
ExceedsTimeoutMax(base, att) == base > TIMEOUT_MAX \div (2 ^ (att - 1))

\* delay(base * Math.pow(2, att - 1)): new Promise(resolve => setTimeout(resolve, ms));
\* a timer whose duration is less than 1 or more than TIMEOUT_MAX fires after 1 ms
SetTimeout(base, att) ==
    IF ExceedsTimeoutMax(base, att) \/ base < 1 THEN 1 ELSE BackoffDelay(base, att)

\* ------------------------------------------------------------------ state
VARIABLES
    pc,            \* "idle", "connect", "begin", "open", "inStep", "commit",
                   \* "rollback", "release", "delay", "done"
    op,            \* the public method the caller invoked
    nOps,          \* operations.length (1 for execute's callback)
    callNo,        \* invocations made so far
    qr,            \* the QueryRunner of the current execute/executeDependent
    store,         \* committed effects, what a read outside sees
    txWrites,      \* uncommitted effects of the open transaction
    results,       \* const results: T[]
    idx,           \* position of the for-of iterator (1-based, 0 before)
    err,           \* the exception in flight, NoError if none
    ret,           \* what the caller receives
    attempt,       \* loop variable of executeWithRetry
    lastError,     \* let lastError
    maxRetries,    \* this.maxRetries
    retryDelayMs,  \* this.retryDelayMs
    delays,        \* arguments of this.delay(), oldest first
    stepLog,       \* history: one record per step run, oldest first
    running,       \* history: steps invoked and not yet settled
    calls,         \* history: QueryRunner calls issued by this invocation
    firstError,    \* history: first failure raised in the current execute
    context,       \* execute was handed a context object
    activeTransactions, \* the WeakMap holds context -> queryRunner
    npc,           \* position of the nested execute call the step is awaiting
    nqr,           \* the QueryRunner the nested execute call created for itself
    nerr,          \* error caught in the nested call (NoError: none)
    nres,          \* result of the nested callback
    nret,          \* what the step received from the nested call
    savepoints,    \* the store's savepoints of the open transaction, oldest first
    nlog,          \* history: one record per nested call, oldest first
    \* ---- several callers of one TransactionManager
    cpc,           \* position of each caller's call
    ccall,         \* each call: method, context argument, where it was made
    crun,          \* the QueryRunner each call created
    cmap,          \* activeTransactions: context -> call whose queryRunner it holds
    cstore,        \* rows committed
    cwrites,       \* rows pending in the transaction of each call's queryRunner
    csnap,         \* rows pending when a call's savepoint was created
    cerr,          \* error each call is about to throw ("none": none)
    \* ---- the services and controllers, and the tables they work on
    spc,           \* position of each client's request
    sreq,          \* each client's request
    sres,          \* results array of the request's executeDependent
    serr,          \* error the service throws: message and the step's own message
    shttp,         \* status the controller answered with (0: none yet)
    stx,           \* each request's transaction: snapshot and pending rows
    slocks,        \* user rows locked by a transaction that references them
    dbUsers,       \* committed user rows
    dbTodos,       \* committed todo rows
    \* ---- configuration changes while a call is in flight
    replaced,      \* history: the retry configuration the first change made
                   \* during a call replaced, and the changes made during it
    \* ---- the timers of the backoff delays
    timers,        \* what each delay(ms) call waited, in ms, oldest first
    \* ---- an executeDependent call made by the step of executeWithRetry
    dpc,           \* position of the executeDependent call ("none": not made)
    dn,            \* operations.length of the call
    dres,          \* its const results: T[]
    derr,          \* the exception in flight in it, NoError if none
    dwrites,       \* uncommitted effects of its transaction
    dlog           \* history: one record per run of one of its steps

vars == <<pc, op, nOps, callNo, qr, store, txWrites, results, idx, err, ret,
          attempt, lastError, maxRetries, retryDelayMs, delays, stepLog,
          running, calls, firstError, context, activeTransactions,
          npc, nqr, nerr, nres, nret, savepoints, nlog,
          cpc, ccall, crun, cmap, cstore, cwrites, csnap, cerr,
          spc, sreq, sres, serr, shttp, stx, slocks, dbUsers, dbTodos,
          replaced, timers, dpc, dn, dres, derr, dwrites, dlog>>

\* the variables of one caller's unit of work
tvars == <<pc, op, nOps, callNo, qr, store, txWrites, results, idx, err, ret,
           attempt, lastError, maxRetries, retryDelayMs, delays, stepLog,
           running, calls, firstError, context, activeTransactions,
           npc, nqr, nerr, nres, nret, savepoints, nlog>>
\* the variables of several callers
cvars == <<cpc, ccall, crun, cmap, cstore, cwrites, csnap, cerr>>
\* the variables of the services
svars == <<spc, sreq, sres, serr, shttp, stx, slocks, dbUsers, dbTodos>>
\* the variables of the executeDependent call of a retried step
dvars == <<dpc, dn, dres, derr, dwrites, dlog>>
OtherThanSeq == <<cvars, svars, replaced, timers, dvars>>
OtherThanConc == <<tvars, svars, replaced, timers, dvars>>
OtherThanSvc == <<tvars, cvars, replaced, timers, dvars>>

nvars == <<npc, nqr, nerr, nres, nret, savepoints, nlog>>

\* dataSource.createQueryRunner()
NewQueryRunner == [created |-> TRUE, connected |-> FALSE,
                   isTransactionActive |-> FALSE, released |-> 0]
NoQueryRunner == [created |-> FALSE, connected |-> FALSE,
                  isTransactionActive |-> FALSE, released |-> 0]

\* callers of one TransactionManager and the context objects they pass
Callers == {"A", "B"}
Contexts == {"c1", "c2"}
NoCall == [method |-> "none", ctx |-> "none", parent |-> "none", on |-> "none"]
NoSavepoint == [created |-> FALSE, rows |-> {}]

\* clients of the HTTP API and the values their requests carry
Clients == {"p1", "p2"}
Emails == {"", "a@x"}
Passwords == {"", "pw"}
Texts == {"", "todo"}
UserIds == {1, 2}
NoRequest == [op |-> "none", email |-> "", password |-> "", text |-> "", userId |-> 0]
NoServiceError == [msg |-> <<>>, cause |-> <<>>]
NoTransaction == [snapshot |-> FALSE, users |-> {}, todos |-> {}]
\* hashPassword(password)
Hash(pw) == <<"bcrypt", pw>>
\* the user rows the tables can hold when the requests arrive
StoredUsers == {[id |-> 1, email |-> "a@x", password |-> Hash("old")],
                [id |-> 2, email |-> "b@x", password |-> Hash("old")]}

NothingReplaced == [call |-> 0, changes |-> 0, maxRetries |-> 0, retryDelayMs |-> 0]
NoCalls == [connect |-> 0, begin |-> 0, commit |-> 0, rollback |-> 0, release |-> 0]
NoReturn == [kind |-> "none", value |-> <<>>, error |-> NoError]

\* the effect step i of the current attempt of the current call leaves
Effect(i) == <<callNo, attempt, i>>
\* the row the step writes before it makes its k-th nested call, and the
\* row the callback of that nested call writes
OuterEffect(k) == <<callNo, attempt, idx, k, "step">>
NestedEffect(k) == <<callNo, attempt, idx, k, "nested">>

SeqInit ==
    /\ pc = "idle"
    /\ op = "none"
    /\ nOps = 0
    /\ callNo = 0
    /\ qr = NoQueryRunner
    /\ store = {}
    /\ txWrites = {}
    /\ results = <<>>
    /\ idx = 0
    /\ err = NoError
    /\ ret = NoReturn
    /\ attempt = 0
    /\ lastError = NoError
    /\ maxRetries = DefaultMaxRetries
    /\ retryDelayMs = DefaultRetryDelayMs
    /\ delays = <<>>
    /\ stepLog = <<>>
    /\ running = {}
    /\ calls = NoCalls
    /\ firstError = NoError
    /\ context = FALSE
    /\ activeTransactions = FALSE
    /\ npc = "none"
    /\ nqr = NoQueryRunner
    /\ nerr = NoError
    /\ nres = "none"
    /\ nret = NoReturn
    /\ savepoints = <<>>
    /\ nlog = <<>>
    /\ replaced = NothingReplaced
    /\ timers = <<>>
    /\ dpc = "none"
    /\ dn = 0
    /\ dres = <<>>
    /\ derr = NoError
    /\ dwrites = {}
    /\ dlog = <<>>

ConcInit ==
    /\ cpc = [c \in Callers |-> "idle"]
    /\ ccall = [c \in Callers |-> NoCall]
    /\ crun = [c \in Callers |-> NoQueryRunner]
    /\ cmap = [x \in Contexts |-> "none"]
    /\ cstore = {}
    /\ cwrites = [c \in Callers |-> {}]
    /\ csnap = [c \in Callers |-> NoSavepoint]
    /\ cerr = [c \in Callers |-> "none"]

\* no request yet; U: the user rows the tables hold
SvcInit(U) ==
    /\ spc = [p \in Clients |-> "idle"]
    /\ sreq = [p \in Clients |-> NoRequest]
    /\ sres = [p \in Clients |-> <<>>]
    /\ serr = [p \in Clients |-> NoServiceError]
    /\ shttp = [p \in Clients |-> 0]
    /\ stx = [p \in Clients |-> NoTransaction]
    /\ slocks = {}
    /\ dbUsers = U
    /\ dbTodos = {}

Init == SeqInit /\ ConcInit /\ SvcInit({})

\* ---------------------------------------------------------------- helpers
\* result of the await the caller is blocked on: a value or a rejection
Settle_Partial(e, res) ==
    IF e = NoError THEN [kind |-> "ok", value |-> res, error |-> NoError]
                   ELSE [kind |-> "fail", value |-> res, error |-> e]
Settle(e, res) ==
    IF e = NoError THEN [kind |-> "ok", value |-> res, error |-> NoError]
                   ELSE [kind |-> "fail", value |-> <<>>, error |-> e]

\* results.push(result)
PushResult_Unshift(res, v) == <<v>> \o res
PushResult(res, v) == Append(res, v)

\* createQueryRunner(); try { await queryRunner.connect() ...
StartExecute ==
    /\ qr' = NewQueryRunner
    /\ pc' = "connect"
    /\ calls' = [NoCalls EXCEPT !.connect = 1]
    /\ err' = NoError
    /\ firstError' = NoError
    /\ results' = <<>>
    /\ idx' = 0
    /\ txWrites' = {}
    /\ running' = {}

\* a backoff that starts inside execute, ahead of the release
FinallyBlock_DelayHeld ==
    IF op = "executeWithRetry" /\ isDeadlockError(err) /\ attempt < maxRetries
      THEN /\ pc' = "delay"
           /\ calls' = calls
      ELSE /\ pc' = "release"
           /\ calls' = [calls EXCEPT !.release = @ + 1]
\* finally { await queryRunner.release() }
FinallyBlock ==
    /\ pc' = "release"
    /\ calls' = [calls EXCEPT !.release = @ + 1]

\* catch (error) { if (queryRunner.isTransactionActive) await rollback; throw error }
CatchBlock_NoRollback(q, e) ==
    /\ err' = e
    /\ FinallyBlock
CatchBlock(q, e) ==
    /\ err' = e
    /\ IF q.isTransactionActive
         THEN /\ pc' = "rollback"
              /\ calls' = [calls EXCEPT !.rollback = @ + 1]
         ELSE FinallyBlock

LogEntry(out, v, m, w) ==
    [att |-> attempt, step |-> idx, out |-> out, val |-> v, msg |-> m, wrote |-> w]

\* ------------------------------------------------------------ the caller
\* await transactionManager.execute(callback)
CallExecute(c) ==
    /\ pc = "idle"
    /\ callNo < MaxCalls
    /\ op' = "execute"
    /\ nOps' = 1
    /\ callNo' = callNo + 1
    /\ attempt' = 1
    /\ StartExecute
    /\ UNCHANGED <<store, ret, lastError, maxRetries, retryDelayMs, delays, stepLog>>
    /\ context' = c
    /\ UNCHANGED activeTransactions
    /\ UNCHANGED nvars
    /\ UNCHANGED OtherThanSeq

\* await transactionManager.executeDependent(operations)
CallExecuteDependent(n) ==
    /\ pc = "idle"
    /\ callNo < MaxCalls
    /\ op' = "executeDependent"
    /\ nOps' = n
    /\ callNo' = callNo + 1
    /\ attempt' = 1
    /\ StartExecute
    /\ UNCHANGED <<store, ret, lastError, maxRetries, retryDelayMs, delays, stepLog>>
    /\ UNCHANGED <<context, activeTransactions>>
    /\ UNCHANGED nvars
    /\ UNCHANGED OtherThanSeq

\* a loop that always makes its first pass
LoopCondition_FirstPass(att) == att = 1 \/ att <= maxRetries
\* the for-loop test of executeWithRetry
LoopCondition(att) == att <= maxRetries

\* throw lastError || new Error('Transaction failed after retries')
AfterLoop ==
    IF lastError # NoError THEN lastError ELSE MkError(MsgAfterRetries, "retries")

\* await transactionManager.executeWithRetry(callback)
CallExecuteWithRetry ==
    /\ pc = "idle"
    /\ callNo < MaxCalls
    /\ op' = "executeWithRetry"
    /\ nOps' = 1
    /\ callNo' = callNo + 1
    /\ attempt' = 1
    /\ IF LoopCondition(1)
         THEN StartExecute /\ ret' = ret
         ELSE /\ pc' = "done"
              /\ ret' = Settle(AfterLoop, <<>>)
              /\ UNCHANGED <<qr, calls, err, firstError, results, idx, txWrites, running>>
    /\ UNCHANGED <<store, lastError, maxRetries, retryDelayMs, delays, stepLog>>
    /\ UNCHANGED <<context, activeTransactions>>
    /\ UNCHANGED nvars
    /\ UNCHANGED OtherThanSeq

\* setRetryConfig(maxRetries, delayMs), called between two units of work
SetRetryConfig(m, d) ==
    /\ pc = "idle"
    /\ callNo < MaxCalls
    /\ <<m, d>> # <<maxRetries, retryDelayMs>>
    /\ maxRetries' = m
    /\ retryDelayMs' = d
    /\ UNCHANGED <<pc, op, nOps, callNo, qr, store, txWrites, results, idx, err, ret,
                   attempt, lastError, delays, stepLog, running, calls, firstError>>
    /\ UNCHANGED <<context, activeTransactions>>
    /\ UNCHANGED nvars
    /\ UNCHANGED OtherThanSeq

\* the caller has consumed the outcome; the invocation's locals are gone
Return ==
    /\ pc = "done"
    /\ pc' = "idle"
    /\ op' = "none"
    /\ nOps' = 0
    /\ qr' = NoQueryRunner
    /\ txWrites' = {}
    /\ results' = <<>>
    /\ idx' = 0
    /\ err' = NoError
    /\ ret' = NoReturn
    /\ attempt' = 0
    /\ lastError' = NoError
    /\ delays' = <<>>
    /\ stepLog' = <<>>
    /\ running' = {}
    /\ calls' = NoCalls
    /\ firstError' = NoError
    /\ UNCHANGED <<callNo, store, maxRetries, retryDelayMs>>
    /\ context' = FALSE
    /\ activeTransactions' = FALSE
    /\ npc' = "none"
    /\ nqr' = NoQueryRunner
    /\ nerr' = NoError
    /\ nres' = "none"
    /\ nret' = NoReturn
    /\ savepoints' = <<>>
    /\ nlog' = <<>>
    /\ UNCHANGED OtherThanSeq

\* ------------------------------------------------- connect / startTransaction
\* queryRunner.connect() resolved
ConnectOk ==
    /\ pc = "connect"
    /\ qr' = [qr EXCEPT !.connected = TRUE]
    /\ pc' = "begin"
    /\ calls' = [calls EXCEPT !.begin = @ + 1]
    /\ UNCHANGED <<op, nOps, callNo, store, txWrites, results, idx, err, ret, attempt,
                   lastError, maxRetries, retryDelayMs, delays, stepLog, running, firstError>>
    /\ UNCHANGED <<context, activeTransactions>>
    /\ UNCHANGED nvars
    /\ UNCHANGED OtherThanSeq

\* queryRunner.connect() rejected
ConnectFail ==
    /\ pc = "connect"
    /\ CatchBlock(qr, MkError(MsgConnection, "connect"))
    /\ firstError' = MkError(MsgConnection, "connect")
    /\ UNCHANGED <<op, nOps, callNo, qr, store, txWrites, results, idx, ret, attempt,
                   lastError, maxRetries, retryDelayMs, delays, stepLog, running>>
    /\ UNCHANGED <<context, activeTransactions>>
    /\ UNCHANGED nvars
    /\ UNCHANGED OtherThanSeq

\* queryRunner.startTransaction(isolationLevel) resolved: the transaction is
\* open and results = []
BeginOk ==
    /\ pc = "begin"
    /\ qr' = [qr EXCEPT !.isTransactionActive = TRUE]
    /\ pc' = "open"
    /\ UNCHANGED <<op, nOps, callNo, store, txWrites, results, idx, err, ret, attempt, calls,
                   lastError, maxRetries, retryDelayMs, delays, stepLog, running, firstError>>
    /\ activeTransactions' = context
    /\ UNCHANGED context
    /\ UNCHANGED nvars
    /\ UNCHANGED OtherThanSeq

\* queryRunner.startTransaction rejected; TypeORM raises isTransactionActive
\* before it sends START TRANSACTION, so either value can be left behind
BeginFail(active) ==
    /\ pc = "begin"
    /\ qr' = [qr EXCEPT !.isTransactionActive = active]
    /\ CatchBlock(qr', MkError(MsgConnection, "begin"))
    /\ firstError' = MkError(MsgConnection, "begin")
    /\ UNCHANGED <<op, nOps, callNo, store, txWrites, results, idx, ret, attempt,
                   lastError, maxRetries, retryDelayMs, delays, stepLog, running>>
    /\ UNCHANGED <<context, activeTransactions>>
    /\ UNCHANGED nvars
    /\ UNCHANGED OtherThanSeq

\* ------------------------------------------------------------------ steps
\* a loop that tests its condition after the body (do ... while)
LoopHead_DoWhile ==
    /\ pc = "open"
    /\ IF idx < nOps \/ idx = 0
         THEN /\ idx' = idx + 1
              /\ running' = running \cup {idx + 1}
              /\ pc' = "inStep"
              /\ calls' = calls
         ELSE /\ idx' = idx
              /\ running' = running
              /\ pc' = "commit"
              /\ calls' = [calls EXCEPT !.commit = @ + 1]
    /\ UNCHANGED <<op, nOps, callNo, qr, store, txWrites, results, err, ret, attempt,
                   lastError, maxRetries, retryDelayMs, delays, stepLog, firstError>>
    /\ UNCHANGED <<context, activeTransactions>>
    /\ UNCHANGED nvars
    /\ UNCHANGED OtherThanSeq
\* the transaction is open: the for-of loop calls the next operation, or,
\* the array exhausted, execution reaches await queryRunner.commitTransaction()
LoopHead ==
    /\ pc = "open"
    /\ IF idx < nOps
         THEN /\ idx' = idx + 1
              /\ running' = running \cup {idx + 1}
              /\ pc' = "inStep"
              /\ calls' = calls
         ELSE /\ idx' = idx
              /\ running' = running
              /\ pc' = "commit"
              /\ calls' = [calls EXCEPT !.commit = @ + 1]
    /\ UNCHANGED <<op, nOps, callNo, qr, store, txWrites, results, err, ret, attempt,
                   lastError, maxRetries, retryDelayMs, delays, stepLog, firstError>>
    /\ UNCHANGED <<context, activeTransactions>>
    /\ UNCHANGED nvars
    /\ UNCHANGED OtherThanSeq

\* the error the inner catch of executeDependent throws; execute rethrows as is
StepFailure(m) ==
    IF op = "executeDependent"
      THEN MkError(DependentMessage(results, m), "step")
      ELSE MkError(m, "step")

\* await operation(queryRunner) resolved with v, its row written through the
\* queryRunner it was handed
StepOk(v) ==
    /\ pc = "inStep"
    /\ npc \in {"none", "returned"}
    /\ results' = PushResult(results, v)
    /\ txWrites' = txWrites \cup {Effect(idx)}
    /\ stepLog' = Append(stepLog, LogEntry("ok", v, <<>>, TRUE))
    /\ running' = running \ {idx}
    /\ pc' = "open"
    /\ UNCHANGED <<op, nOps, callNo, qr, store, idx, err, ret, attempt, lastError, calls,
                   maxRetries, retryDelayMs, delays, firstError>>
    /\ UNCHANGED <<context, activeTransactions>>
    /\ UNCHANGED nvars
    /\ UNCHANGED OtherThanSeq

\* a loop whose catch swallows the error and goes on with the next operation
StepThrow_Continue(m, w) ==
    /\ pc = "inStep"
    /\ npc \in {"none", "returned"}
    /\ txWrites' = IF w THEN txWrites \cup {Effect(idx)} ELSE txWrites
    /\ stepLog' = Append(stepLog, LogEntry("throw", "none", m, w))
    /\ running' = running \ {idx}
    /\ pc' = "open"
    /\ UNCHANGED <<op, nOps, callNo, qr, store, results, idx, err, ret, attempt, lastError,
                   calls, maxRetries, retryDelayMs, delays, firstError>>
    /\ UNCHANGED <<context, activeTransactions>>
    /\ UNCHANGED nvars
    /\ UNCHANGED OtherThanSeq

\* an executeDependent without try/catch/finally: the failure leaves at once
StepThrow_Escape(m, w) ==
    /\ pc = "inStep"
    /\ npc \in {"none", "returned"}
    /\ txWrites' = IF w THEN txWrites \cup {Effect(idx)} ELSE txWrites
    /\ stepLog' = Append(stepLog, LogEntry("throw", "none", m, w))
    /\ running' = running \ {idx}
    /\ err' = StepFailure(m)
    /\ firstError' = StepFailure(m)
    /\ pc' = "done"
    /\ ret' = Settle(StepFailure(m), <<>>)
    /\ UNCHANGED <<op, nOps, callNo, qr, store, results, idx, attempt, lastError, calls,
                   maxRetries, retryDelayMs, delays>>
    /\ UNCHANGED <<context, activeTransactions>>
    /\ UNCHANGED nvars
    /\ UNCHANGED OtherThanSeq

\* await operation(queryRunner) rejected with message m; w: it had written
\* its row before it threw (the case the specification draws)
StepThrow(m, w) ==
    /\ pc = "inStep"
    /\ npc \in {"none", "returned"}
    /\ txWrites' = IF w THEN txWrites \cup {Effect(idx)} ELSE txWrites
    /\ stepLog' = Append(stepLog, LogEntry("throw", "none", m, w))
    /\ running' = running \ {idx}
    /\ CatchBlock(qr, StepFailure(m))
    /\ firstError' = StepFailure(m)
    /\ UNCHANGED <<op, nOps, callNo, qr, store, results, idx, ret, attempt, lastError,
                   maxRetries, retryDelayMs, delays>>
    /\ UNCHANGED <<context, activeTransactions>>
    /\ UNCHANGED nvars
    /\ UNCHANGED OtherThanSeq

\* ------------------------------------------------------ commit / rollback
\* queryRunner.commitTransaction() resolved: return results; finally release
CommitOk ==
    /\ pc = "commit"
    /\ store' = store \cup txWrites
    /\ txWrites' = {}
    /\ qr' = [qr EXCEPT !.isTransactionActive = FALSE]
    /\ FinallyBlock
    /\ UNCHANGED <<op, nOps, callNo, results, idx, err, ret, attempt, lastError,
                   maxRetries, retryDelayMs, delays, stepLog, running, firstError>>
    /\ savepoints' = <<>>
    /\ UNCHANGED <<context, activeTransactions, npc, nqr, nerr, nres, nret, nlog>>
    /\ UNCHANGED OtherThanSeq

\* queryRunner.commitTransaction() rejected: COMMIT threw, the flag is still set
CommitFail(m) ==
    /\ pc = "commit"
    /\ CatchBlock(qr, MkError(m, "commit"))
    /\ firstError' = MkError(m, "commit")
    /\ UNCHANGED <<op, nOps, callNo, qr, store, txWrites, results, idx, ret, attempt,
                   lastError, maxRetries, retryDelayMs, delays, stepLog, running>>
    /\ UNCHANGED <<context, activeTransactions>>
    /\ UNCHANGED nvars
    /\ UNCHANGED OtherThanSeq

\* a rollback that makes the pending writes durable instead of discarding them
RollbackOk_Keep ==
    /\ pc = "rollback"
    /\ qr' = [qr EXCEPT !.isTransactionActive = FALSE]
    /\ store' = store \cup txWrites
    /\ txWrites' = {}
    /\ FinallyBlock
    /\ UNCHANGED <<op, nOps, callNo, results, idx, err, ret, attempt, lastError,
                   maxRetries, retryDelayMs, delays, stepLog, running, firstError>>
    /\ savepoints' = <<>>
    /\ UNCHANGED <<context, activeTransactions, npc, nqr, nerr, nres, nret, nlog>>
    /\ UNCHANGED OtherThanSeq

\* queryRunner.rollbackTransaction() resolved: throw error; finally release
RollbackOk ==
    /\ pc = "rollback"
    /\ qr' = [qr EXCEPT !.isTransactionActive = FALSE]
    /\ txWrites' = {}
    /\ FinallyBlock
    /\ UNCHANGED <<op, nOps, callNo, store, results, idx, err, ret, attempt, lastError,
                   maxRetries, retryDelayMs, delays, stepLog, running, firstError>>
    /\ savepoints' = <<>>
    /\ UNCHANGED <<context, activeTransactions, npc, nqr, nerr, nres, nret, nlog>>
    /\ UNCHANGED OtherThanSeq

\* a catch block without a finally: the rollback error leaves at once
RollbackFail_NoFinally ==
    /\ pc = "rollback"
    /\ err' = MkError(MsgRollback, "rollback")
    /\ pc' = "done"
    /\ ret' = Settle(MkError(MsgRollback, "rollback"), <<>>)
    /\ UNCHANGED <<op, nOps, callNo, qr, store, txWrites, results, idx, attempt, calls,
                   lastError, maxRetries, retryDelayMs, delays, stepLog, running, firstError>>
    /\ UNCHANGED <<context, activeTransactions>>
    /\ UNCHANGED nvars
    /\ UNCHANGED OtherThanSeq

\* queryRunner.rollbackTransaction() rejected inside the catch block: its error
\* leaves the catch in place of `error`; the connection is lost and the store
\* discards the uncommitted writes; finally release
RollbackFail ==
    /\ pc = "rollback"
    /\ err' = MkError(MsgRollback, "rollback")
    /\ FinallyBlock
    /\ UNCHANGED <<op, nOps, callNo, qr, store, txWrites, results, idx, ret, attempt,
                   lastError, maxRetries, retryDelayMs, delays, stepLog, running, firstError>>
    /\ UNCHANGED <<context, activeTransactions>>
    /\ UNCHANGED nvars
    /\ UNCHANGED OtherThanSeq

\* ---------------------------------------------------------- release / retry
\* if (this.isDeadlockError(lastError) && attempt < this.maxRetries)
ShouldRetry_NoBudget(e, att) == isDeadlockError(e)
ShouldRetry_OffByOne(e, att) == isDeadlockError(e) /\ att < maxRetries - 1
ShouldRetry(e, att) == isDeadlockError(e) /\ att < maxRetries

\* a loop that awaits this.execute without returning its result
RetryAfterExecute_NoReturn ==
    /\ lastError' = IF err = NoError THEN lastError ELSE err
    /\ IF attempt < maxRetries /\ (err = NoError \/ isDeadlockError(err))
         THEN /\ delays' = Append(delays, BackoffDelay(retryDelayMs, attempt))
              /\ pc' = "delay"
              /\ ret' = ret
         ELSE /\ pc' = "done"
              /\ ret' = Settle(err, results)
              /\ delays' = delays
\* executeWithRetry receives the outcome of this.execute
RetryAfterExecute ==
    IF err = NoError
      THEN /\ pc' = "done"
           /\ ret' = Settle(NoError, results)
           /\ UNCHANGED <<lastError, delays>>
      ELSE /\ lastError' = err
           /\ IF ShouldRetry(err, attempt)
                THEN /\ delays' = Append(delays, BackoffDelay(retryDelayMs, attempt))
                     /\ pc' = "delay"
                     /\ ret' = ret
                ELSE /\ pc' = "done"
                     /\ ret' = Settle(err, <<>>)
                     /\ delays' = delays

\* queryRunner.release() resolved; the outcome leaves execute/executeDependent
ReleaseDone ==
    /\ pc = "release"
    /\ qr' = [qr EXCEPT !.released = @ + 1]
    /\ IF op = "executeWithRetry"
         THEN RetryAfterExecute
         ELSE /\ pc' = "done"
              /\ ret' = Settle(err, results)
              /\ UNCHANGED <<lastError, delays>>
    /\ UNCHANGED <<op, nOps, callNo, store, txWrites, results, idx, err, attempt, calls,
                   maxRetries, retryDelayMs, stepLog, running, firstError>>
    /\ UNCHANGED <<context, activeTransactions>>
    /\ UNCHANGED nvars
    /\ UNCHANGED OtherThanSeq

\* the backoff timer fired: continue; attempt++; next this.execute
DelayDone ==
    /\ pc = "delay"
    /\ attempt' = attempt + 1
    /\ IF LoopCondition(attempt + 1)
         THEN StartExecute /\ ret' = ret
         ELSE /\ pc' = "done"
              /\ ret' = Settle(AfterLoop, <<>>)
              /\ UNCHANGED <<qr, calls, err, firstError, results, idx, txWrites, running>>
    /\ UNCHANGED <<op, nOps, callNo, store, lastError, maxRetries, retryDelayMs,
                   delays, stepLog>>
    /\ UNCHANGED <<context, activeTransactions>>
    /\ UNCHANGED nvars
    /\ UNCHANGED OtherThanSeq

\* ----------------------------------------- the timers of the backoff
\* setRetryConfig(m, d) before the call
SetRetryConfigBackoff(m, d) ==
    /\ pc = "idle"
    /\ attempt = 0
    /\ <<m, d>> # <<maxRetries, retryDelayMs>>
    /\ maxRetries' = m
    /\ retryDelayMs' = d
    /\ UNCHANGED <<pc, op, nOps, callNo, qr, store, txWrites, results, idx, err, ret,
                   attempt, lastError, delays, stepLog, running, calls, firstError>>
    /\ UNCHANGED <<context, activeTransactions>>
    /\ UNCHANGED nvars
    /\ UNCHANGED <<cvars, svars, replaced, timers, dvars>>

\* one iteration of executeWithRetry whose execute rejected with a deadlock:
\* attempt < this.maxRetries, await this.delay(...), continue
BackoffAfterAttempt ==
    /\ pc = "idle"
    /\ ShouldRetry(MkError(MsgDeadlock, "step"), attempt + 1)
    /\ timers' = Append(timers, SetTimeout(retryDelayMs, attempt + 1))
    /\ attempt' = attempt + 1
    /\ UNCHANGED <<pc, op, nOps, callNo, qr, store, txWrites, results, idx, err, ret,
                   lastError, maxRetries, retryDelayMs, delays, stepLog, running,
                   calls, firstError>>
    /\ UNCHANGED <<context, activeTransactions>>
    /\ UNCHANGED nvars
    /\ UNCHANGED <<cvars, svars, replaced, dvars>>

BackoffNext ==
    \/ \E m \in 0..MaxBackoffRetries, d \in DelayChoices : SetRetryConfigBackoff(m, d)
    \/ BackoffAfterAttempt

BackoffSpec == Init /\ [][BackoffNext]_vars

\* ------------------------------- setRetryConfig while a call is in flight
\* the changes made so far during the call in flight
ChangesInFlight == IF replaced.call = callNo THEN replaced.changes ELSE 0

\* setRetryConfig(m, d) called by another request handler while the
\* executeWithRetry call is suspended at one of its awaits:
\* this.maxRetries = maxRetries; this.retryDelayMs = delayMs
SetRetryConfigInFlight(m, d) ==
    /\ op = "executeWithRetry"
    /\ pc \notin {"idle", "done"}
    /\ ChangesInFlight < MaxChanges
    /\ <<m, d>> # <<maxRetries, retryDelayMs>>
    /\ maxRetries' = m
    /\ retryDelayMs' = d
    /\ replaced' = IF replaced.call = callNo
                     THEN [replaced EXCEPT !.changes = @ + 1]
                     ELSE [call |-> callNo, changes |-> 1,
                           maxRetries |-> maxRetries, retryDelayMs |-> retryDelayMs]
    /\ UNCHANGED <<pc, op, nOps, callNo, qr, store, txWrites, results, idx, err, ret,
                   attempt, lastError, delays, stepLog, running, calls, firstError>>
    /\ UNCHANGED <<context, activeTransactions>>
    /\ UNCHANGED nvars
    /\ UNCHANGED <<cvars, svars, timers, dvars>>

ConfigNext ==
    \/ CallExecuteWithRetry
    \/ \E m \in 0..MaxRetryConfig, d \in DelayChoices : SetRetryConfig(m, d)
    \/ \E m \in 0..MaxRetryConfig, d \in DelayChoices : SetRetryConfigInFlight(m, d)
    \/ Return
    \/ ConnectOk
    \/ BeginOk
    \/ LoopHead
    \/ \E v \in Values : StepOk(v)
    \/ \E m \in {MsgDeadlock, MsgNotFound} : StepThrow(m, TRUE)
    \/ CommitOk
    \/ RollbackOk
    \/ ReleaseDone
    \/ DelayDone

ConfigSpec == Init /\ [][ConfigNext]_vars

\* ------------------------------------------- nested execute and savepoints
\* `sp_${Date.now()}_${Math.random().toString(36).substr(2, 9)}`: the clock
\* and the generator decide the name; two of the names they can produce
SavepointNames == {"sp_1", "sp_2"}
NestedMsgs == {MsgNotFound}
NestedValues == {"v1"}

\* const existingTransaction = context ? this.activeTransactions.get(context) : null
ExistingTransaction == IF context /\ activeTransactions THEN qr ELSE NoQueryRunner

\* if (existingTransaction && existingTransaction.isTransactionActive)
ReuseTransaction ==
    ExistingTransaction.created /\ ExistingTransaction.isTransactionActive

RECURSIVE LatestNamed(_, _)
\* position of the youngest savepoint called n, 0 when there is none
LatestNamed(sps, n) ==
    IF sps = <<>> THEN 0
    ELSE IF sps[Len(sps)].name = n THEN Len(sps)
    ELSE LatestNamed(SubSeq(sps, 1, Len(sps) - 1), n)

\* RELEASE SAVEPOINT n: the youngest savepoint n and every younger one go
ReleaseSavepoint(sps, n) == SubSeq(sps, 1, LatestNamed(sps, n) - 1)

\* ROLLBACK TO SAVEPOINT n: younger savepoints go, savepoint n stays
RollbackToSavepoint(sps, n) ==
    [writes |-> sps[LatestNamed(sps, n)].snap,
     sps    |-> SubSeq(sps, 1, LatestNamed(sps, n))]

CurrentName == nlog[Len(nlog)].name

\* the step, having written a row, awaits
\* transactionManager.execute(callback2, level, context): createQueryRunner(),
\* the lookup finds the transaction in progress, executeWithSavepoint builds
\* the name and sends SAVEPOINT
NestedCall(n) ==
    /\ pc = "inStep"
    /\ op = "execute"
    /\ npc \in {"none", "returned"}
    /\ Len(nlog) < MaxNested
    /\ ReuseTransaction
    /\ nqr' = NewQueryRunner
    /\ txWrites' = txWrites \cup {OuterEffect(Len(nlog) + 1)}
    /\ nlog' = Append(nlog, [name |-> n, sp |-> "requested", step |-> "none",
                             msg |-> <<>>, rollbackTo |-> "none",
                             before |-> txWrites \cup {OuterEffect(Len(nlog) + 1)}])
    /\ npc' = "savepoint"
    /\ nerr' = NoError
    /\ nres' = "none"
    /\ nret' = NoReturn
    /\ UNCHANGED <<pc, op, nOps, callNo, qr, store, results, idx, err, ret, attempt,
                   lastError, maxRetries, retryDelayMs, delays, stepLog, running, calls,
                   firstError, context, activeTransactions, savepoints>>
    /\ UNCHANGED OtherThanSeq

\* catch (error) of executeWithSavepoint: ROLLBACK TO SAVEPOINT is sent
CatchSavepoint(e, how) ==
    /\ nerr' = e
    /\ npc' = "rollbackSp"
    /\ nlog' = [nlog EXCEPT ![Len(nlog)].step = how,
                            ![Len(nlog)].msg = IF how = "throw" THEN e.msg ELSE <<>>]

\* queryRunner.query(`SAVEPOINT ...`) resolved; callback2 is called
SavepointOk ==
    /\ npc = "savepoint"
    /\ savepoints' = Append(savepoints, [name |-> CurrentName, snap |-> txWrites])
    /\ nlog' = [nlog EXCEPT ![Len(nlog)].sp = "open"]
    /\ npc' = "inner"
    /\ UNCHANGED <<pc, op, nOps, callNo, qr, store, txWrites, results, idx, err, ret,
                   attempt, lastError, maxRetries, retryDelayMs, delays, stepLog, running,
                   calls, firstError, context, activeTransactions, nqr, nerr, nres, nret>>
    /\ UNCHANGED OtherThanSeq

\* queryRunner.query(`SAVEPOINT ...`) rejected
SavepointFail ==
    /\ npc = "savepoint"
    /\ CatchSavepoint(MkError(MsgQueryFailed, "savepoint"), "none")
    /\ UNCHANGED <<pc, op, nOps, callNo, qr, store, txWrites, results, idx, err, ret,
                   attempt, lastError, maxRetries, retryDelayMs, delays, stepLog, running,
                   calls, firstError, context, activeTransactions, nqr, nres, nret,
                   savepoints>>
    /\ UNCHANGED OtherThanSeq

\* await callback2(queryRunner) resolved with v, its row written through the
\* parent's queryRunner; a callback that returns without sending RELEASE
NestedStepOk_NoRelease(v) ==
    /\ npc = "inner"
    /\ txWrites' = txWrites \cup {NestedEffect(Len(nlog))}
    /\ nres' = v
    /\ nlog' = [nlog EXCEPT ![Len(nlog)].step = "ok"]
    /\ npc' = "release"
    /\ UNCHANGED <<pc, op, nOps, callNo, qr, store, results, idx, err, ret, attempt,
                   lastError, maxRetries, retryDelayMs, delays, stepLog, running, calls,
                   firstError, context, activeTransactions, nqr, nerr, nret, savepoints>>
    /\ UNCHANGED OtherThanSeq

\* await callback2(queryRunner) resolved with v, its row written through the
\* parent's queryRunner; RELEASE SAVEPOINT is sent
NestedStepOk(v) ==
    /\ npc = "inner"
    /\ txWrites' = txWrites \cup {NestedEffect(Len(nlog))}
    /\ nres' = v
    /\ nlog' = [nlog EXCEPT ![Len(nlog)].step = "ok"]
    /\ npc' = "releaseSp"
    /\ UNCHANGED <<pc, op, nOps, callNo, qr, store, results, idx, err, ret, attempt,
                   lastError, maxRetries, retryDelayMs, delays, stepLog, running, calls,
                   firstError, context, activeTransactions, nqr, nerr, nret, savepoints>>
    /\ UNCHANGED OtherThanSeq

\* await callback2(queryRunner) rejected with message m after it wrote its row
NestedStepThrow(m) ==
    /\ npc = "inner"
    /\ txWrites' = txWrites \cup {NestedEffect(Len(nlog))}
    /\ CatchSavepoint(MkError(m, "nested"), "throw")
    /\ UNCHANGED <<pc, op, nOps, callNo, qr, store, results, idx, err, ret, attempt,
                   lastError, maxRetries, retryDelayMs, delays, stepLog, running, calls,
                   firstError, context, activeTransactions, nqr, nres, nret, savepoints>>
    /\ UNCHANGED OtherThanSeq

\* RELEASE SAVEPOINT resolved: return result; execute's finally releases the
\* queryRunner the nested call created
ReleaseSavepointOk ==
    /\ npc = "releaseSp"
    /\ LatestNamed(savepoints, CurrentName) > 0
    /\ savepoints' = ReleaseSavepoint(savepoints, CurrentName)
    /\ nlog' = [nlog EXCEPT ![Len(nlog)].sp = "released"]
    /\ npc' = "release"
    /\ UNCHANGED <<pc, op, nOps, callNo, qr, store, txWrites, results, idx, err, ret,
                   attempt, lastError, maxRetries, retryDelayMs, delays, stepLog, running,
                   calls, firstError, context, activeTransactions, nqr, nerr, nres, nret>>
    /\ UNCHANGED OtherThanSeq

\* RELEASE SAVEPOINT rejected: the catch of executeWithSavepoint takes it
ReleaseSavepointFail ==
    /\ npc = "releaseSp"
    /\ CatchSavepoint(MkError(MsgQueryFailed, "releaseSp"), "ok")
    /\ UNCHANGED <<pc, op, nOps, callNo, qr, store, txWrites, results, idx, err, ret,
                   attempt, lastError, maxRetries, retryDelayMs, delays, stepLog, running,
                   calls, firstError, context, activeTransactions, nqr, nres, nret,
                   savepoints>>
    /\ UNCHANGED OtherThanSeq

\* a catch of the nested execute that tests the parent's queryRunner
NestedCatch_Parent ==
    IF qr.isTransactionActive
      THEN /\ qr' = [qr EXCEPT !.isTransactionActive = FALSE]
           /\ calls' = [calls EXCEPT !.rollback = @ + 1]
      ELSE /\ qr' = qr
           /\ calls' = calls
\* catch (error) of the nested execute: if (queryRunner.isTransactionActive)
\* tests the queryRunner this call created, which never began a transaction;
\* throw error; finally release that queryRunner
NestedCatch ==
    IF nqr.isTransactionActive
      THEN /\ qr' = qr
           /\ calls' = [calls EXCEPT !.rollback = @ + 1]
      ELSE /\ qr' = qr
           /\ calls' = calls

\* a catch that lets the error of ROLLBACK TO SAVEPOINT replace `error`
SwallowRollbackError_Replace(e) == MkError(MsgQueryFailed, "rollbackSp")
\* catch (rollbackError) { console.error(...) }  throw error
SwallowRollbackError(e) == e

\* ROLLBACK TO SAVEPOINT resolved: throw error
RollbackToSavepointOk ==
    /\ npc = "rollbackSp"
    /\ LatestNamed(savepoints, CurrentName) > 0
    /\ txWrites' = RollbackToSavepoint(savepoints, CurrentName).writes
    /\ savepoints' = RollbackToSavepoint(savepoints, CurrentName).sps
    /\ nlog' = [nlog EXCEPT ![Len(nlog)].rollbackTo = "ok",
                            ![Len(nlog)].sp = IF @ = "open" THEN "rolledBack" ELSE @]
    /\ NestedCatch
    /\ npc' = "release"
    /\ UNCHANGED <<pc, op, nOps, callNo, store, results, idx, err, ret, attempt,
                   lastError, maxRetries, retryDelayMs, delays, stepLog, running,
                   firstError, context, activeTransactions, nqr, nerr, nres, nret>>
    /\ UNCHANGED OtherThanSeq

\* ROLLBACK TO SAVEPOINT rejected: logged, throw error
RollbackToSavepointFail ==
    /\ npc = "rollbackSp"
    /\ nerr' = SwallowRollbackError(nerr)
    /\ nlog' = [nlog EXCEPT ![Len(nlog)].rollbackTo = "rejected"]
    /\ NestedCatch
    /\ npc' = "release"
    /\ UNCHANGED <<pc, op, nOps, callNo, store, txWrites, results, idx, err, ret,
                   attempt, lastError, maxRetries, retryDelayMs, delays, stepLog, running,
                   firstError, context, activeTransactions, nqr, nres, nret, savepoints>>
    /\ UNCHANGED OtherThanSeq

\* release() of the nested call's queryRunner resolved; the step receives the
\* outcome of the nested call
NestedReleaseDone ==
    /\ npc = "release"
    /\ nqr' = [nqr EXCEPT !.released = @ + 1]
    /\ nret' = Settle(nerr, <<nres>>)
    /\ nerr' = NoError
    /\ nres' = "none"
    /\ npc' = "returned"
    /\ UNCHANGED <<pc, op, nOps, callNo, qr, store, txWrites, results, idx, err, ret,
                   attempt, lastError, maxRetries, retryDelayMs, delays, stepLog, running,
                   calls, firstError, context, activeTransactions, savepoints, nlog>>
    /\ UNCHANGED OtherThanSeq

\* ------------------------------------------------------------ specification
Next ==
    \/ \E c \in BOOLEAN : CallExecute(c)
    \/ \E n \in 0..MaxSteps : CallExecuteDependent(n)
    \/ CallExecuteWithRetry
    \/ \E m \in 0..MaxRetryConfig, d \in DelayChoices : SetRetryConfig(m, d)
    \/ Return
    \/ ConnectOk
    \/ ConnectFail
    \/ BeginOk
    \/ LoopHead
    \/ \E active \in BOOLEAN : BeginFail(active)
    \/ \E v \in Values : StepOk(v)
    \/ \E m \in StepMsgs : StepThrow(m, TRUE)
    \/ CommitOk
    \/ \E m \in CommitMsgs : CommitFail(m)
    \/ RollbackOk
    \/ RollbackFail
    \/ ReleaseDone
    \/ DelayDone

Spec == Init /\ [][Next]_vars

\* every store call and every step of an invocation in flight settles
InFlightStep ==
    \/ ConnectOk
    \/ ConnectFail
    \/ BeginOk
    \/ LoopHead
    \/ \E active \in BOOLEAN : BeginFail(active)
    \/ \E v \in Values : StepOk(v)
    \/ \E m \in StepMsgs : StepThrow(m, TRUE)
    \/ CommitOk
    \/ \E m \in CommitMsgs : CommitFail(m)
    \/ RollbackOk
    \/ RollbackFail
    \/ ReleaseDone
    \/ DelayDone

FairSpec == Init /\ [][Next]_vars /\ WF_vars(InFlightStep)

\* a unit of work that is handed a context object and whose step re-enters
\* execute with that context
NestedNext ==
    \/ CallExecute(TRUE)
    \/ ConnectOk
    \/ ConnectFail
    \/ BeginOk
    \/ LoopHead
    \/ \E active \in BOOLEAN : BeginFail(active)
    \/ \E v \in NestedValues : StepOk(v)
    \/ \E m \in NestedMsgs : StepThrow(m, TRUE)
    \/ CommitOk
    \/ CommitFail(MsgConnection)
    \/ RollbackOk
    \/ RollbackFail
    \/ ReleaseDone
    \/ \E n \in SavepointNames : NestedCall(n)
    \/ SavepointOk
    \/ SavepointFail
    \/ \E v \in NestedValues : NestedStepOk(v)
    \/ \E m \in NestedMsgs : NestedStepThrow(m)
    \/ ReleaseSavepointOk
    \/ ReleaseSavepointFail
    \/ RollbackToSavepointOk
    \/ RollbackToSavepointFail
    \/ NestedReleaseDone

NestedSpec == Init /\ [][NestedNext]_vars

\* ------------------------------------- several callers of one manager
\* const existingTransaction = context ? this.activeTransactions.get(context) : null
ConcExisting(x) == IF x \in Contexts THEN cmap[x] ELSE "none"

\* if (existingTransaction && existingTransaction.isTransactionActive)
ConcReuse(x) ==
    /\ ConcExisting(x) # "none"
    /\ crun[ConcExisting(x)].isTransactionActive

\* the step of call d is awaiting a call it made
Awaiting(d) == \E c \in Callers : ccall[c].parent = d /\ cpc[c] \notin {"idle", "done"}

\* where a call can be made from: the top level of a request handler
\* ("none"), or the running step of another call
CallSites(c) ==
    {"none"} \cup {d \in Callers \ {c} : cpc[d] \in {"inStep", "spStep"} /\ ~Awaiting(d)}

\* a statement sent through queryRunner r is executed: r is not released
\* (a released QueryRunner rejects every query)
Usable(r) == crun[r].released = 0
\* a savepoint statement needs the transaction of r
InTransaction(r) == Usable(r) /\ crun[r].isTransactionActive

\* execute(callback, level, x), made from site par: createQueryRunner(); the
\* lookup decides between the savepoint path and a transaction of its own
ConcCallExecute(c, x, par) ==
    /\ cpc[c] = "idle"
    /\ ccall[c].method = "none"
    /\ par \in CallSites(c)
    /\ crun' = [crun EXCEPT ![c] = NewQueryRunner]
    /\ IF ConcReuse(x)
         THEN /\ cpc' = [cpc EXCEPT ![c] = "savepoint"]
              /\ ccall' = [ccall EXCEPT ![c] = [method |-> "execute", ctx |-> x,
                                                parent |-> par, on |-> ConcExisting(x)]]
         ELSE /\ cpc' = [cpc EXCEPT ![c] = "connect"]
              /\ ccall' = [ccall EXCEPT ![c] = [method |-> "execute", ctx |-> x,
                                                parent |-> par, on |-> c]]
    /\ UNCHANGED <<cmap, cstore, cwrites, csnap, cerr>>
    /\ UNCHANGED OtherThanConc

\* an executeDependent that makes the lookup of execute for context x
ConcCallExecuteDependent_Reuse(c, x, par) ==
    /\ cpc[c] = "idle"
    /\ ccall[c].method = "none"
    /\ par \in CallSites(c)
    /\ crun' = [crun EXCEPT ![c] = NewQueryRunner]
    /\ IF ConcReuse(x)
         THEN /\ cpc' = [cpc EXCEPT ![c] = "savepoint"]
              /\ ccall' = [ccall EXCEPT ![c] = [method |-> "executeDependent", ctx |-> "none",
                                                parent |-> par, on |-> ConcExisting(x)]]
         ELSE /\ cpc' = [cpc EXCEPT ![c] = "connect"]
              /\ ccall' = [ccall EXCEPT ![c] = [method |-> "executeDependent", ctx |-> "none",
                                                parent |-> par, on |-> c]]
    /\ UNCHANGED <<cmap, cstore, cwrites, csnap, cerr>>
    /\ UNCHANGED OtherThanConc

\* executeDependent(operations, level), made from site par; x is the context
\* of the unit of work around it, which executeDependent has no parameter for:
\* createQueryRunner(); await queryRunner.connect()
ConcCallExecuteDependent(c, x, par) ==
    /\ cpc[c] = "idle"
    /\ ccall[c].method = "none"
    /\ par \in CallSites(c)
    /\ crun' = [crun EXCEPT ![c] = NewQueryRunner]
    /\ cpc' = [cpc EXCEPT ![c] = "connect"]
    /\ ccall' = [ccall EXCEPT ![c] = [method |-> "executeDependent", ctx |-> "none",
                                      parent |-> par, on |-> c]]
    /\ UNCHANGED <<cmap, cstore, cwrites, csnap, cerr>>
    /\ UNCHANGED OtherThanConc

\* queryRunner.connect() resolved
ConcConnectOk(c) ==
    /\ cpc[c] = "connect"
    /\ crun' = [crun EXCEPT ![c].connected = TRUE]
    /\ cpc' = [cpc EXCEPT ![c] = "begin"]
    /\ UNCHANGED <<ccall, cmap, cstore, cwrites, csnap, cerr>>
    /\ UNCHANGED OtherThanConc

\* queryRunner.startTransaction(level) resolved;
\* if (context) this.activeTransactions.set(context, queryRunner); the step is called
ConcBeginOk(c) ==
    /\ cpc[c] = "begin"
    /\ crun' = [crun EXCEPT ![c].isTransactionActive = TRUE]
    /\ cmap' = IF ccall[c].method = "execute" /\ ccall[c].ctx \in Contexts
                 THEN [cmap EXCEPT ![ccall[c].ctx] = c]
                 ELSE cmap
    /\ cpc' = [cpc EXCEPT ![c] = "inStep"]
    /\ UNCHANGED <<ccall, cstore, cwrites, csnap, cerr>>
    /\ UNCHANGED OtherThanConc

\* the step resolved, its row written through its own queryRunner; commit is sent
ConcStepOk(c) ==
    /\ cpc[c] = "inStep"
    /\ ~Awaiting(c)
    /\ cwrites' = [cwrites EXCEPT ![c] = @ \cup {c}]
    /\ cpc' = [cpc EXCEPT ![c] = "commit"]
    /\ UNCHANGED <<ccall, crun, cmap, cstore, csnap, cerr>>
    /\ UNCHANGED OtherThanConc

\* the step rejected after it wrote its row; catch: the transaction is active,
\* rollbackTransaction is sent
ConcStepThrow(c) ==
    /\ cpc[c] = "inStep"
    /\ ~Awaiting(c)
    /\ cwrites' = [cwrites EXCEPT ![c] = @ \cup {c}]
    /\ cerr' = [cerr EXCEPT ![c] = "step"]
    /\ cpc' = [cpc EXCEPT ![c] = "rollback"]
    /\ UNCHANGED <<ccall, crun, cmap, cstore, csnap>>
    /\ UNCHANGED OtherThanConc

\* commitTransaction() resolved; finally release
ConcCommitOk(c) ==
    /\ cpc[c] = "commit"
    /\ cstore' = cstore \cup cwrites[c]
    /\ cwrites' = [cwrites EXCEPT ![c] = {}]
    /\ crun' = [crun EXCEPT ![c].isTransactionActive = FALSE]
    /\ cpc' = [cpc EXCEPT ![c] = "release"]
    /\ UNCHANGED <<ccall, cmap, csnap, cerr>>
    /\ UNCHANGED OtherThanConc

\* commitTransaction() rejected; catch: rollbackTransaction is sent
ConcCommitFail(c) ==
    /\ cpc[c] = "commit"
    /\ cerr' = [cerr EXCEPT ![c] = "commit"]
    /\ cpc' = [cpc EXCEPT ![c] = "rollback"]
    /\ UNCHANGED <<ccall, crun, cmap, cstore, cwrites, csnap>>
    /\ UNCHANGED OtherThanConc

\* rollbackTransaction() resolved; throw error; finally release
ConcRollbackOk(c) ==
    /\ cpc[c] = "rollback"
    /\ cwrites' = [cwrites EXCEPT ![c] = {}]
    /\ crun' = [crun EXCEPT ![c].isTransactionActive = FALSE]
    /\ cpc' = [cpc EXCEPT ![c] = "release"]
    /\ UNCHANGED <<ccall, cmap, cstore, csnap, cerr>>
    /\ UNCHANGED OtherThanConc

\* rollbackTransaction() rejected: isTransactionActive stays set; finally release
ConcRollbackFail(c) ==
    /\ cpc[c] = "rollback"
    /\ cerr' = [cerr EXCEPT ![c] = "rollback"]
    /\ cpc' = [cpc EXCEPT ![c] = "release"]
    /\ UNCHANGED <<ccall, crun, cmap, cstore, cwrites, csnap>>
    /\ UNCHANGED OtherThanConc

\* release() of the call's own queryRunner resolved; the call returns or throws
ConcReleaseDone(c) ==
    /\ cpc[c] = "release"
    /\ crun' = [crun EXCEPT ![c].released = @ + 1]
    /\ cpc' = [cpc EXCEPT ![c] = "done"]
    /\ UNCHANGED <<ccall, cmap, cstore, cwrites, csnap, cerr>>
    /\ UNCHANGED OtherThanConc

\* SAVEPOINT resolved on the queryRunner found in the map; the step is called
ConcSavepointOk(c) ==
    /\ cpc[c] = "savepoint"
    /\ InTransaction(ccall[c].on)
    /\ csnap' = [csnap EXCEPT ![c] = [created |-> TRUE, rows |-> cwrites[ccall[c].on]]]
    /\ cpc' = [cpc EXCEPT ![c] = "spStep"]
    /\ UNCHANGED <<ccall, crun, cmap, cstore, cwrites, cerr>>
    /\ UNCHANGED OtherThanConc

\* SAVEPOINT rejected; catch: ROLLBACK TO SAVEPOINT is sent
ConcSavepointFail(c) ==
    /\ cpc[c] = "savepoint"
    /\ cerr' = [cerr EXCEPT ![c] = "savepoint"]
    /\ cpc' = [cpc EXCEPT ![c] = "spRollback"]
    /\ UNCHANGED <<ccall, crun, cmap, cstore, cwrites, csnap>>
    /\ UNCHANGED OtherThanConc

\* the step resolved, its row written through the queryRunner found in the
\* map: into that transaction, or at once when it has ended and the
\* connection is not yet released; RELEASE SAVEPOINT is sent
ConcSpStepOk(c) ==
    /\ cpc[c] = "spStep"
    /\ ~Awaiting(c)
    /\ Usable(ccall[c].on)
    /\ IF crun[ccall[c].on].isTransactionActive
         THEN /\ cwrites' = [cwrites EXCEPT ![ccall[c].on] = @ \cup {c}]
              /\ cstore' = cstore
         ELSE /\ cwrites' = cwrites
              /\ cstore' = cstore \cup {c}
    /\ cpc' = [cpc EXCEPT ![c] = "spRelease"]
    /\ UNCHANGED <<ccall, crun, cmap, csnap, cerr>>
    /\ UNCHANGED OtherThanConc

\* the step rejected; catch: ROLLBACK TO SAVEPOINT is sent
ConcSpStepThrow(c) ==
    /\ cpc[c] = "spStep"
    /\ ~Awaiting(c)
    /\ cwrites' = IF InTransaction(ccall[c].on)
                    THEN [cwrites EXCEPT ![ccall[c].on] = @ \cup {c}]
                    ELSE cwrites
    /\ cerr' = [cerr EXCEPT ![c] = "step"]
    /\ cpc' = [cpc EXCEPT ![c] = "spRollback"]
    /\ UNCHANGED <<ccall, crun, cmap, cstore, csnap>>
    /\ UNCHANGED OtherThanConc

\* RELEASE SAVEPOINT resolved; return result; finally release
ConcSpReleaseOk(c) ==
    /\ cpc[c] = "spRelease"
    /\ InTransaction(ccall[c].on)
    /\ cpc' = [cpc EXCEPT ![c] = "release"]
    /\ UNCHANGED <<ccall, crun, cmap, cstore, cwrites, csnap, cerr>>
    /\ UNCHANGED OtherThanConc

\* RELEASE SAVEPOINT rejected; catch: ROLLBACK TO SAVEPOINT is sent
ConcSpReleaseFail(c) ==
    /\ cpc[c] = "spRelease"
    /\ cerr' = [cerr EXCEPT ![c] = "releaseSp"]
    /\ cpc' = [cpc EXCEPT ![c] = "spRollback"]
    /\ UNCHANGED <<ccall, crun, cmap, cstore, cwrites, csnap>>
    /\ UNCHANGED OtherThanConc

\* ROLLBACK TO SAVEPOINT resolved; throw error; finally release
ConcSpRollbackOk(c) ==
    /\ cpc[c] = "spRollback"
    /\ InTransaction(ccall[c].on)
    /\ csnap[c].created
    /\ cwrites' = [cwrites EXCEPT ![ccall[c].on] = csnap[c].rows]
    /\ cpc' = [cpc EXCEPT ![c] = "release"]
    /\ UNCHANGED <<ccall, crun, cmap, cstore, csnap, cerr>>
    /\ UNCHANGED OtherThanConc

\* ROLLBACK TO SAVEPOINT rejected: logged; throw error; finally release
ConcSpRollbackFail(c) ==
    /\ cpc[c] = "spRollback"
    /\ cpc' = [cpc EXCEPT ![c] = "release"]
    /\ UNCHANGED <<ccall, crun, cmap, cstore, cwrites, csnap, cerr>>
    /\ UNCHANGED OtherThanConc

ConcNext ==
    \/ \E c \in Callers, x \in Contexts \cup {"none"}, par \in Callers \cup {"none"} :
          ConcCallExecute(c, x, par)
    \/ \E c \in Callers, x \in Contexts, par \in Callers \cup {"none"} :
          ConcCallExecuteDependent(c, x, par)
    \/ \E c \in Callers : ConcConnectOk(c)
    \/ \E c \in Callers : ConcBeginOk(c)
    \/ \E c \in Callers : ConcStepOk(c)
    \/ \E c \in Callers : ConcStepThrow(c)
    \/ \E c \in Callers : ConcCommitOk(c)
    \/ \E c \in Callers : ConcCommitFail(c)
    \/ \E c \in Callers : ConcRollbackOk(c)
    \/ \E c \in Callers : ConcRollbackFail(c)
    \/ \E c \in Callers : ConcReleaseDone(c)
    \/ \E c \in Callers : ConcSavepointOk(c)
    \/ \E c \in Callers : ConcSavepointFail(c)
    \/ \E c \in Callers : ConcSpStepOk(c)
    \/ \E c \in Callers : ConcSpStepThrow(c)
    \/ \E c \in Callers : ConcSpReleaseOk(c)
    \/ \E c \in Callers : ConcSpReleaseFail(c)
    \/ \E c \in Callers : ConcSpRollbackOk(c)
    \/ \E c \in Callers : ConcSpRollbackFail(c)

ConcSpec == Init /\ [][ConcNext]_vars

\* --------------------- executeWithRetry around a step calling executeDependent
\* what the steps of the inner executeDependent can throw
DependentMsgs == {MsgDeadlock, MsgNotFound}

\* the row step i of the inner call writes in the attempt under way
DependentEffect(i) == <<"dependent", attempt, i>>

DependentLogEntry(out, m) ==
    [att |-> attempt, step |-> Len(dres) + 1, out |-> out, msg |-> m]

\* the retried step: return await transactionManager.executeDependent([...]);
\* createQueryRunner(); connect() is awaited
DependentCall(n) ==
    /\ op = "executeWithRetry"
    /\ pc = "inStep"
    /\ dpc = "none"
    /\ dpc' = "connect"
    /\ dn' = n
    /\ dres' = <<>>
    /\ derr' = NoError
    /\ dwrites' = {}
    /\ UNCHANGED dlog
    /\ UNCHANGED <<tvars, cvars, svars, replaced, timers>>

\* connect() resolved; startTransaction(isolationLevel) is awaited
DependentConnectOk ==
    /\ dpc = "connect"
    /\ dpc' = "begin"
    /\ UNCHANGED <<dn, dres, derr, dwrites, dlog>>
    /\ UNCHANGED <<tvars, cvars, svars, replaced, timers>>

\* startTransaction resolved; const results = []; the loop begins
DependentBeginOk ==
    /\ dpc = "begin"
    /\ dpc' = "open"
    /\ UNCHANGED <<dn, dres, derr, dwrites, dlog>>
    /\ UNCHANGED <<tvars, cvars, svars, replaced, timers>>

\* the next operation resolved with v, its row written: results.push(result)
DependentStepOk(v) ==
    /\ dpc = "open"
    /\ Len(dres) < dn
    /\ dres' = PushResult(dres, v)
    /\ dwrites' = dwrites \cup {DependentEffect(Len(dres) + 1)}
    /\ dlog' = Append(dlog, DependentLogEntry("ok", <<>>))
    /\ UNCHANGED <<dpc, dn, derr>>
    /\ UNCHANGED <<tvars, cvars, svars, replaced, timers>>

\* the next operation rejected with m after it wrote its row: the inner catch
\* wraps the message, the outer catch sends rollbackTransaction
DependentStepThrow(m) ==
    /\ dpc = "open"
    /\ Len(dres) < dn
    /\ dwrites' = dwrites \cup {DependentEffect(Len(dres) + 1)}
    /\ derr' = MkError(DependentMessage(dres, m), "step")
    /\ dlog' = Append(dlog, DependentLogEntry("throw", m))
    /\ dpc' = "rollback"
    /\ UNCHANGED <<dn, dres>>
    /\ UNCHANGED <<tvars, cvars, svars, replaced, timers>>

\* the loop is over: commitTransaction() resolved; return results; finally
DependentCommitOk ==
    /\ dpc = "open"
    /\ Len(dres) = dn
    /\ store' = store \cup dwrites
    /\ dwrites' = {}
    /\ dpc' = "release"
    /\ UNCHANGED <<dn, dres, derr, dlog>>
    /\ UNCHANGED <<pc, op, nOps, callNo, qr, txWrites, results, idx, err, ret,
                   attempt, lastError, maxRetries, retryDelayMs, delays, stepLog,
                   running, calls, firstError, context, activeTransactions>>
    /\ UNCHANGED nvars
    /\ UNCHANGED <<cvars, svars, replaced, timers>>

\* rollbackTransaction() resolved; throw error; finally
DependentRollbackOk ==
    /\ dpc = "rollback"
    /\ dwrites' = {}
    /\ dpc' = "release"
    /\ UNCHANGED <<dn, dres, derr, dlog>>
    /\ UNCHANGED <<tvars, cvars, svars, replaced, timers>>

\* rollbackTransaction() rejected: its error leaves the catch; finally
DependentRollbackFail ==
    /\ dpc = "rollback"
    /\ derr' = MkError(MsgRollback, "rollback")
    /\ dpc' = "release"
    /\ UNCHANGED <<dn, dres, dwrites, dlog>>
    /\ UNCHANGED <<tvars, cvars, svars, replaced, timers>>

\* release() resolved: executeDependent returns results or throws to the step
DependentReleaseDone ==
    /\ dpc = "release"
    /\ dpc' = "returned"
    /\ UNCHANGED <<dn, dres, derr, dwrites, dlog>>
    /\ UNCHANGED <<tvars, cvars, svars, replaced, timers>>

\* the retried step settles as its executeDependent call did: execute pushes
\* on to commit, or its catch receives the error the call threw
StepAfterDependent ==
    /\ pc = "inStep"
    /\ dpc = "returned"
    /\ dpc' = "none"
    /\ running' = running \ {idx}
    /\ IF derr = NoError
         THEN /\ results' = PushResult(results, dres)
              /\ stepLog' = Append(stepLog, LogEntry("ok", dres, <<>>, FALSE))
              /\ pc' = "open"
              /\ UNCHANGED <<err, calls, firstError>>
         ELSE /\ stepLog' = Append(stepLog, LogEntry("throw", "none", derr.msg, FALSE))
              /\ CatchBlock(qr, MkError(derr.msg, "step"))
              /\ firstError' = MkError(derr.msg, "step")
              /\ results' = results
    /\ UNCHANGED <<dn, dres, derr, dwrites, dlog>>
    /\ UNCHANGED <<op, nOps, callNo, qr, store, txWrites, idx, ret, attempt, lastError,
                   maxRetries, retryDelayMs, delays, context, activeTransactions>>
    /\ UNCHANGED nvars
    /\ UNCHANGED <<cvars, svars, replaced, timers>>

RetryDependentNext ==
    \/ CallExecuteWithRetry
    \/ ConnectOk
    \/ BeginOk
    \/ LoopHead
    \/ \E n \in 1..MaxSteps : DependentCall(n)
    \/ DependentConnectOk
    \/ DependentBeginOk
    \/ \E v \in Values : DependentStepOk(v)
    \/ \E m \in DependentMsgs : DependentStepThrow(m)
    \/ DependentCommitOk
    \/ DependentRollbackOk
    \/ DependentRollbackFail
    \/ DependentReleaseDone
    \/ StepAfterDependent
    \/ CommitOk
    \/ RollbackOk
    \/ RollbackFail
    \/ ReleaseDone
    \/ DelayDone

RetryDependentSpec == Init /\ [][RetryDependentNext]_vars

\* ------------------------------------------- services and controllers
\* authController.register: the status for the message the service threw
RegisterStatus(msg) ==
    IF msg = <<>> THEN HTTP_CREATED
    ELSE IF msg = MsgUserExists THEN HTTP_CONFLICT
    ELSE IF msg = MsgEmailPasswordRequired THEN HTTP_BAD_REQUEST
    ELSE HTTP_INTERNAL_SERVER_ERROR

\* todoController.createTodo: the status for the message the service threw
CreateTodoStatus(msg) ==
    IF msg = <<>> THEN HTTP_CREATED
    ELSE IF msg = MsgTodoTextRequired THEN HTTP_BAD_REQUEST
    ELSE IF msg = MsgNotFound THEN HTTP_NOT_FOUND
    ELSE HTTP_INTERNAL_SERVER_ERROR

\* an entity with no relation to User: any authorId can be inserted
ForeignKeyHolds_NoRelation(id) == TRUE
\* @ManyToOne(() => User, ..., { onDelete: 'CASCADE' }): the insert of a todo
\* is checked against the committed user rows
ForeignKeyHolds(id) == \E u \in dbUsers : u.id = id

\* the inner catch of executeDependent wraps the step's message; the outer
\* catch rolls back
SvcStepThrows(p, cause) ==
    /\ serr' = [serr EXCEPT ![p] = [msg |-> DependentMessage(sres[p], cause),
                                    cause |-> cause]]
    /\ spc' = [spc EXCEPT ![p] = "rollback"]

\* UserService.register(email, password): the guard on its arguments, then
\* executeDependent([...], 'SERIALIZABLE') connects and begins
SvcRegister(p, email, password) ==
    /\ spc[p] = "idle"
    /\ sreq[p].op = "none"
    /\ sreq' = [sreq EXCEPT ![p] = [op |-> "register", email |-> email,
                                    password |-> password, text |-> "", userId |-> 0]]
    /\ IF email = "" \/ password = ""
         THEN /\ serr' = [serr EXCEPT ![p] = [msg |-> MsgEmailPasswordRequired,
                                              cause |-> MsgEmailPasswordRequired]]
              /\ spc' = [spc EXCEPT ![p] = "respond"]
         ELSE /\ serr' = serr
              /\ spc' = [spc EXCEPT ![p] = "step1"]
    /\ UNCHANGED <<sres, shttp, stx, slocks, dbUsers, dbTodos>>
    /\ UNCHANGED OtherThanSvc

\* TodoService.createTodo(text, userId): the guard on its text, then
\* executeDependent([...], 'SERIALIZABLE') connects and begins
SvcCreateTodo(p, text, id) ==
    /\ spc[p] = "idle"
    /\ sreq[p].op = "none"
    /\ sreq' = [sreq EXCEPT ![p] = [op |-> "createTodo", email |-> "",
                                    password |-> "", text |-> text, userId |-> id]]
    /\ IF text = ""
         THEN /\ serr' = [serr EXCEPT ![p] = [msg |-> MsgTodoTextRequired,
                                              cause |-> MsgTodoTextRequired]]
              /\ spc' = [spc EXCEPT ![p] = "respond"]
         ELSE /\ serr' = serr
              /\ spc' = [spc EXCEPT ![p] = "step1"]
    /\ UNCHANGED <<sres, shttp, stx, slocks, dbUsers, dbTodos>>
    /\ UNCHANGED OtherThanSvc

\* step 1, the first statement of the transaction: register counts the users
\* with the email, createTodo looks the user up; results.push or throw
SvcStep1(p) ==
    /\ spc[p] = "step1"
    /\ stx' = [stx EXCEPT ![p].snapshot = TRUE, ![p].users = dbUsers]
    /\ IF sreq[p].op = "register"
         THEN IF \E u \in dbUsers : u.email = sreq[p].email
                THEN SvcStepThrows(p, MsgUserExists) /\ sres' = sres
                ELSE /\ sres' = [sres EXCEPT ![p] = PushResult(@, <<"null">>)]
                     /\ spc' = [spc EXCEPT ![p] = "step2"]
                     /\ serr' = serr
         ELSE IF \E u \in dbUsers : u.id = sreq[p].userId
                THEN /\ sres' = [sres EXCEPT ![p] = PushResult(@, <<"user">>)]
                     /\ spc' = [spc EXCEPT ![p] = "step2"]
                     /\ serr' = serr
                ELSE SvcStepThrows(p, MsgNotFound) /\ sres' = sres
    /\ UNCHANGED <<sreq, shttp, slocks, dbUsers, dbTodos>>
    /\ UNCHANGED OtherThanSvc

\* step 2 of register: hashPassword(password); results.push
SvcHashPassword(p) ==
    /\ spc[p] = "step2"
    /\ sreq[p].op = "register"
    /\ sres' = [sres EXCEPT ![p] = PushResult(@, Hash(sreq[p].password))]
    /\ spc' = [spc EXCEPT ![p] = "step3"]
    /\ UNCHANGED <<sreq, serr, shttp, stx, slocks, dbUsers, dbTodos>>
    /\ UNCHANGED OtherThanSvc

\* step 3 of register: `const hashedPassword = results[1]` reads the const
\* that the pending `await executeDependent(...)` has not initialised yet
SvcCreateUser(p, m) ==
    /\ spc[p] = "step3"
    /\ SvcStepThrows(p, m)
    /\ UNCHANGED <<sreq, sres, shttp, stx, slocks, dbUsers, dbTodos>>
    /\ UNCHANGED OtherThanSvc

\* step 2 of createTodo: todoRepository.create inserts the row, the user row
\* it references stays locked until the transaction ends; results.push
SvcInsertTodo(p) ==
    /\ spc[p] = "step2"
    /\ sreq[p].op = "createTodo"
    /\ ForeignKeyHolds(sreq[p].userId)
    /\ stx' = [stx EXCEPT ![p].todos = @ \cup {[id |-> p, authorId |-> sreq[p].userId]}]
    /\ slocks' = slocks \cup {<<p, sreq[p].userId>>}
    /\ sres' = [sres EXCEPT ![p] = PushResult(@, <<"todo">>)]
    /\ spc' = [spc EXCEPT ![p] = "commit"]
    /\ UNCHANGED <<sreq, serr, shttp, dbUsers, dbTodos>>
    /\ UNCHANGED OtherThanSvc

\* step 2 of createTodo: the insert is rejected, the user row was deleted
\* after the snapshot was taken
SvcInsertTodoFail(p) ==
    /\ spc[p] = "step2"
    /\ sreq[p].op = "createTodo"
    /\ ~ForeignKeyHolds(sreq[p].userId)
    /\ SvcStepThrows(p, MsgSerialization)
    /\ UNCHANGED <<sreq, sres, shttp, stx, slocks, dbUsers, dbTodos>>
    /\ UNCHANGED OtherThanSvc

\* commitTransaction() resolved: return results; finally release
SvcCommitOk(p) ==
    /\ spc[p] = "commit"
    /\ dbTodos' = dbTodos \cup stx[p].todos
    /\ stx' = [stx EXCEPT ![p].todos = {}]
    /\ slocks' = {l \in slocks : l[1] # p}
    /\ spc' = [spc EXCEPT ![p] = "release"]
    /\ UNCHANGED <<sreq, sres, serr, shttp, dbUsers>>
    /\ UNCHANGED OtherThanSvc

\* commitTransaction() rejected; catch: rollbackTransaction
SvcCommitFail(p) ==
    /\ spc[p] = "commit"
    /\ serr' = [serr EXCEPT ![p] = [msg |-> MsgSerialization, cause |-> MsgSerialization]]
    /\ spc' = [spc EXCEPT ![p] = "rollback"]
    /\ UNCHANGED <<sreq, sres, shttp, stx, slocks, dbUsers, dbTodos>>
    /\ UNCHANGED OtherThanSvc

\* rollbackTransaction() resolved; throw error; finally release
SvcRollback(p) ==
    /\ spc[p] = "rollback"
    /\ stx' = [stx EXCEPT ![p].todos = {}]
    /\ slocks' = {l \in slocks : l[1] # p}
    /\ spc' = [spc EXCEPT ![p] = "release"]
    /\ UNCHANGED <<sreq, sres, serr, shttp, dbUsers, dbTodos>>
    /\ UNCHANGED OtherThanSvc

\* release() resolved: executeDependent returns or throws to the service,
\* the service to the controller
SvcRelease(p) ==
    /\ spc[p] = "release"
    /\ spc' = [spc EXCEPT ![p] = "respond"]
    /\ UNCHANGED <<sreq, sres, serr, shttp, stx, slocks, dbUsers, dbTodos>>
    /\ UNCHANGED OtherThanSvc

\* the controller answers: res.status(...)
SvcRespond(p) ==
    /\ spc[p] = "respond"
    /\ shttp' = [shttp EXCEPT ![p] = IF sreq[p].op = "register"
                                       THEN RegisterStatus(serr[p].msg)
                                       ELSE CreateTodoStatus(serr[p].msg)]
    /\ spc' = [spc EXCEPT ![p] = "done"]
    /\ UNCHANGED <<sreq, sres, serr, stx, slocks, dbUsers, dbTodos>>
    /\ UNCHANGED OtherThanSvc

\* another transaction deletes user id and commits; the delete cascades to
\* the user's todos and waits while a transaction holds the row locked
DeleteUser(id) ==
    /\ \E u \in dbUsers : u.id = id
    /\ ~\E l \in slocks : l[2] = id
    /\ dbUsers' = {u \in dbUsers : u.id # id}
    /\ dbTodos' = {t \in dbTodos : t.authorId # id}
    /\ UNCHANGED <<spc, sreq, sres, serr, shttp, stx, slocks>>
    /\ UNCHANGED OtherThanSvc

SvcNext ==
    \/ \E p \in Clients, e \in Emails, w \in Passwords : SvcRegister(p, e, w)
    \/ \E p \in Clients, t \in Texts, id \in UserIds : SvcCreateTodo(p, t, id)
    \/ \E p \in Clients : SvcStep1(p)
    \/ \E p \in Clients : SvcHashPassword(p)
    \/ \E p \in Clients, m \in {MsgBeforeInitialization, MsgUndefinedRead} : SvcCreateUser(p, m)
    \/ \E p \in Clients : SvcInsertTodo(p)
    \/ \E p \in Clients : SvcInsertTodoFail(p)
    \/ \E p \in Clients : SvcCommitOk(p)
    \/ \E p \in Clients : SvcCommitFail(p)
    \/ \E p \in Clients : SvcRollback(p)
    \/ \E p \in Clients : SvcRelease(p)
    \/ \E p \in Clients : SvcRespond(p)
    \/ \E id \in UserIds : DeleteUser(id)

\* the users stored when the requests arrive: any of StoredUsers
SvcStart == \E U \in SUBSET StoredUsers : SeqInit /\ ConcInit /\ SvcInit(U)

SvcSpec == SvcStart /\ [][SvcNext]_vars

\* ------------------------------------------------ TodoService and soft delete
TodoStatuses == {"ACTIVE", "COMPLETED", "DELETED"}
TodoIds == {1}

\* the user the stored todos belong to
StoredAuthor == [id |-> 1, email |-> "a@x", password |-> Hash("old")]

\* the todo tables the requests can find: todo 1 of user 1 in any status
StoredTodos ==
    {{[id |-> 1, authorId |-> 1, status |-> st, text |-> "todo"]} : st \in TodoStatuses}

\* the `updates` argument of updateTodo: a new status, a new text, or both
\* ("none", "": the field is not given)
Updates ==
    {[status |-> st, text |-> tx] :
        st \in {"none", "ACTIVE", "DELETED"}, tx \in {"", "edited"}}
      \ {[status |-> "none", text |-> ""]}

TodoMethods == {"getTodos", "getTodoById", "updateTodo", "deleteTodo"}

NoTodoTransaction == [snapshot |-> FALSE, users |-> {}, todos |-> {}, seen |-> {}]

TodoInit(T) ==
    /\ spc = [p \in Clients |-> "idle"]
    /\ sreq = [p \in Clients |-> NoRequest]
    /\ sres = [p \in Clients |-> <<>>]
    /\ serr = [p \in Clients |-> NoServiceError]
    /\ shttp = [p \in Clients |-> 0]
    /\ stx = [p \in Clients |-> NoTodoTransaction]
    /\ slocks = {}
    /\ dbUsers = {StoredAuthor}
    /\ dbTodos = T

\* createBaseQuery(): .andWhere('todo.status != :deletedStatus')
createBaseQuery(rows) == {t \in rows : t.status # "DELETED"}

\* the rows p's transaction reads: its snapshot, with its own write on top
TodoView(p) ==
    {t \in stx[p].seen : ~\E w \in stx[p].todos : w.id = t.id} \cup stx[p].todos

\* find(authorId, id): the todo id of authorId among the rows, deleted ones
\* left out; the empty set stands for null
find(rows, authorId, id) ==
    {t \in createBaseQuery(rows) : t.authorId = authorId /\ t.id = id}

\* find(authorId, undefined, filters): the todos of authorId, deleted ones
\* left out, with the status filter when one is given
findAll(rows, authorId, status) ==
    {t \in createBaseQuery(rows) :
        /\ t.authorId = authorId
        /\ status # "none" => t.status = status}

\* the fields repo.update(id, data) sets on row t
ApplyUpdate(t, status, text) ==
    [t EXCEPT !.status = IF status = "none" THEN @ ELSE status,
              !.text = IF text = "" THEN @ ELSE text]

\* a database that lets an UPDATE through on a row another transaction
\* changed after the snapshot (READ COMMITTED)
ConcurrentUpdate_ReadCommitted(p, id) == FALSE
\* 'SERIALIZABLE': an UPDATE of a row that a transaction committed after p's
\* snapshot changed is rejected (could not serialize access)
ConcurrentUpdate(p, id) ==
    {t \in dbTodos : t.id = id} # {t \in stx[p].seen : t.id = id}

\* a TodoService method is called: executeDependent([...], 'SERIALIZABLE')
\* connects and begins; st and tx are the status filter of getTodos or the
\* updates of updateTodo
TodoRequest(p, m, uid, tid, st, tx) ==
    /\ spc[p] = "idle"
    /\ sreq[p].op = "none"
    /\ m \in TodoMethods
    /\ sreq' = [sreq EXCEPT ![p] = [op |-> m, userId |-> uid, todoId |-> tid,
                                    status |-> st, text |-> tx]]
    /\ spc' = [spc EXCEPT ![p] = "step1"]
    /\ UNCHANGED <<sres, serr, shttp, stx, slocks, dbUsers, dbTodos>>
    /\ UNCHANGED OtherThanSvc

\* step 1, the first statement of the transaction: findById(userId), and for
\* updateTodo and deleteTodo find(userId, todoId) as well
TodoStep1(p) ==
    /\ spc[p] = "step1"
    /\ stx' = [stx EXCEPT ![p].snapshot = TRUE, ![p].users = dbUsers, ![p].seen = dbTodos]
    /\ IF ~\E u \in dbUsers : u.id = sreq[p].userId
         THEN SvcStepThrows(p, MsgNotFound) /\ sres' = sres
         ELSE IF /\ sreq[p].op \in {"updateTodo", "deleteTodo"}
                 /\ find(dbTodos, sreq[p].userId, sreq[p].todoId) = {}
                THEN SvcStepThrows(p, MsgTodoNotFound) /\ sres' = sres
                ELSE /\ sres' = [sres EXCEPT ![p] = PushResult(@, <<"user">>)]
                     /\ spc' = [spc EXCEPT ![p] = "step2"]
                     /\ serr' = serr
    /\ UNCHANGED <<sreq, shttp, slocks, dbUsers, dbTodos>>
    /\ UNCHANGED OtherThanSvc

\* step 2 of getTodos: find(userId, undefined, filters, pagination)
TodoGetTodos(p) ==
    /\ spc[p] = "step2"
    /\ sreq[p].op = "getTodos"
    /\ sres' = [sres EXCEPT ![p] =
                  PushResult(@, findAll(TodoView(p), sreq[p].userId, sreq[p].status))]
    /\ spc' = [spc EXCEPT ![p] = "commit"]
    /\ UNCHANGED <<sreq, serr, shttp, stx, slocks, dbUsers, dbTodos>>
    /\ UNCHANGED OtherThanSvc

\* step 2 of getTodoById: find(userId, todoId), null throws TODO_NOT_FOUND
TodoGetTodoById(p) ==
    /\ spc[p] = "step2"
    /\ sreq[p].op = "getTodoById"
    /\ LET found == find(TodoView(p), sreq[p].userId, sreq[p].todoId) IN
         IF found = {}
           THEN SvcStepThrows(p, MsgTodoNotFound) /\ sres' = sres
           ELSE /\ sres' = [sres EXCEPT ![p] = PushResult(@, found)]
                /\ spc' = [spc EXCEPT ![p] = "commit"]
                /\ serr' = serr
    /\ UNCHANGED <<sreq, shttp, stx, slocks, dbUsers, dbTodos>>
    /\ UNCHANGED OtherThanSvc

\* step 2 of updateTodo and deleteTodo: repo.update(id, data) waits while
\* another transaction holds the row, is rejected when the row changed after
\* the snapshot, and else writes the row; updateTodo then reads it back with
\* find(userId, todoId) and throws UPDATE_TODO_FAILED on null
TodoWrite(p) ==
    /\ spc[p] = "step2"
    /\ sreq[p].op \in {"updateTodo", "deleteTodo"}
    /\ ~\E l \in slocks : l[1] # p /\ l[2] = sreq[p].todoId
    /\ IF ConcurrentUpdate(p, sreq[p].todoId)
         THEN /\ SvcStepThrows(p, MsgSerialization)
              /\ UNCHANGED <<sres, stx, slocks>>
         ELSE LET st == IF sreq[p].op = "deleteTodo" THEN "DELETED" ELSE sreq[p].status
                  tx == IF sreq[p].op = "deleteTodo" THEN "" ELSE sreq[p].text
                  written == {ApplyUpdate(t, st, tx) :
                                 t \in {r \in dbTodos : r.id = sreq[p].todoId}}
              IN /\ stx' = [stx EXCEPT ![p].todos = written]
                 /\ slocks' = slocks \cup {<<p, sreq[p].todoId>>}
                 /\ IF /\ sreq[p].op = "updateTodo"
                       /\ find(written, sreq[p].userId, sreq[p].todoId) = {}
                      THEN SvcStepThrows(p, MsgUpdateTodoFailed) /\ sres' = sres
                      ELSE /\ sres' = [sres EXCEPT ![p] =
                                        PushResult(@, IF sreq[p].op = "deleteTodo"
                                                        THEN {TRUE} ELSE written)]
                           /\ spc' = [spc EXCEPT ![p] = "commit"]
                           /\ serr' = serr
    /\ UNCHANGED <<sreq, shttp, dbUsers, dbTodos>>
    /\ UNCHANGED OtherThanSvc

\* commitTransaction() resolved: the written row replaces the stored one
TodoCommitOk(p) ==
    /\ spc[p] = "commit"
    /\ dbTodos' = {t \in dbTodos : ~\E w \in stx[p].todos : w.id = t.id} \cup stx[p].todos
    /\ stx' = [stx EXCEPT ![p].todos = {}]
    /\ slocks' = {l \in slocks : l[1] # p}
    /\ spc' = [spc EXCEPT ![p] = "release"]
    /\ UNCHANGED <<sreq, sres, serr, shttp, dbUsers>>
    /\ UNCHANGED OtherThanSvc

\* the method returns to its caller, or throws what executeDependent threw
TodoReturn(p) ==
    /\ spc[p] = "respond"
    /\ spc' = [spc EXCEPT ![p] = "done"]
    /\ UNCHANGED <<sreq, sres, serr, shttp, stx, slocks, dbUsers, dbTodos>>
    /\ UNCHANGED OtherThanSvc

TodoNext ==
    \/ \E p \in Clients, uid \in UserIds, tid \in TodoIds :
          \/ \E st \in {"none", "DELETED"} : TodoRequest(p, "getTodos", uid, tid, st, "")
          \/ TodoRequest(p, "getTodoById", uid, tid, "none", "")
          \/ \E u \in Updates : TodoRequest(p, "updateTodo", uid, tid, u.status, u.text)
          \/ TodoRequest(p, "deleteTodo", uid, tid, "none", "")
    \/ \E p \in Clients : TodoStep1(p)
    \/ \E p \in Clients : TodoGetTodos(p)
    \/ \E p \in Clients : TodoGetTodoById(p)
    \/ \E p \in Clients : TodoWrite(p)
    \/ \E p \in Clients : TodoCommitOk(p)
    \/ \E p \in Clients : SvcCommitFail(p)
    \/ \E p \in Clients : SvcRollback(p)
    \/ \E p \in Clients : SvcRelease(p)
    \/ \E p \in Clients : TodoReturn(p)

\* the todo table when the requests arrive: any of StoredTodos
TodoStart == \E T \in StoredTodos : SeqInit /\ ConcInit /\ TodoInit(T)

TodoSpec == TodoStart /\ [][TodoNext]_vars

\* ------------------------------------------------------------- vocabulary
IsDependent == op = "executeDependent"
Delivered == pc = "done"
\* the outcome of one execute/executeDependent has left the method
Left == pc \in {"done", "delay"} /\ qr.created
StepThrew == \E k \in DOMAIN stepLog : stepLog[k].out = "throw"
\* effects written by the steps of the current invocation
OwnEffects(S) == {e \in S : e[1] = callNo}
\* rollbackTransaction was called and rejected: the flag was never cleared
RollbackFailed == calls.rollback = 1 /\ qr.isTransactionActive /\ pc \in {"release", "done", "delay"}

\* C1: atomicity of executeDependent. Once a step of the list has failed,
\* and in particular after executeDependent has returned, the committed
\* store holds no effect of any step of that list.
C1_Atomicity ==
    (IsDependent /\ StepThrew) => OwnEffects(store) = {}

C1_Witness ==
    /\ Delivered /\ IsDependent /\ ret.kind = "fail"
    /\ Len(stepLog) = 3
    /\ stepLog[1].out = "ok" /\ stepLog[1].wrote
    /\ stepLog[3].out = "throw" /\ stepLog[3].wrote
    /\ calls.rollback = 1 /\ ~RollbackFailed

\* C2: sequential dependency in executeDependent. Steps are invoked in list
\* order, step i+1 only after step i returned a value; at most one step is
\* running; after a step has thrown no further step is invoked.
C2_Sequential ==
    IsDependent =>
        /\ Cardinality(running) <= 1
        /\ \A k \in DOMAIN stepLog : stepLog[k].step = k
        /\ \A k \in DOMAIN stepLog : stepLog[k].out = "throw" => k = Len(stepLog) /\ running = {}
        /\ \A i \in running : /\ Len(stepLog) = i - 1
                              /\ \A j \in 1..(i - 1) : stepLog[j].out = "ok"

C2_Witness ==
    /\ Delivered /\ IsDependent /\ nOps = 3
    /\ Len(stepLog) = 2
    /\ stepLog[1].out = "ok" /\ stepLog[2].out = "throw"

\* C3: all-or-nothing result shape. executeDependent over N steps delivers
\* either N results and no failure, or one failure and no result, also when
\* results had been collected before a failing step or a failing commit.
C3_ResultShape ==
    (Delivered /\ IsDependent) =>
        \/ ret.kind = "ok" /\ Len(ret.value) = nOps /\ ret.error = NoError
        \/ ret.kind = "fail" /\ ret.value = <<>> /\ ret.error # NoError

C3_Witness ==
    /\ Delivered /\ IsDependent /\ ret.kind = "fail"
    /\ nOps = 2 /\ Len(results) = 2
    /\ firstError.at = "commit"

\* C4: release exactly once. The QueryRunner of an execute or
\* executeDependent invocation is released once by the time its outcome
\* leaves the method, on every exit path, and never a second time.
C4_ReleaseOnce ==
    /\ qr.released <= 1
    /\ calls.release <= 1
    /\ (Delivered /\ op \in {"execute", "executeDependent"}) => qr.created
    /\ Left => qr.released = 1

C4_Witness ==
    /\ Delivered /\ RollbackFailed /\ qr.released = 1
    /\ firstError.at = "commit"

C6_OriginalFailureKept ==
    (Delivered /\ op \in {"execute", "executeDependent"} /\ RollbackFailed
        /\ firstError.at \in {"step", "commit"}) =>
        /\ qr.released = 1
        /\ ret.kind = "fail"
        /\ ret.error = firstError

\* the state of the state machine of section 4.3 the invocation is in
Phase ==
    CASE pc = "idle" -> "Idle"
      [] pc \in {"connect", "begin"} -> "Connecting"
      [] pc \in {"open", "inStep"} -> "TransactionOpen"
      [] pc = "commit" -> "Committing"
      [] pc = "rollback" -> "RollingBack"
      [] pc = "release" -> IF calls.rollback > 0 THEN "RollingBack"
                           ELSE IF calls.commit > 0 THEN "Committing"
                           ELSE "Connecting"
      [] OTHER -> IF qr.created THEN "Released" ELSE "Idle"

\* the next invocation starts from Released: the caller's next call, or
\* the next this.execute of executeWithRetry
BetweenInvocations == {<<"Released", "Idle">>, <<"Released", "Connecting">>}

SpecEdges ==
    {<<"Idle", "Connecting">>, <<"Connecting", "TransactionOpen">>,
     <<"TransactionOpen", "Committing">>, <<"TransactionOpen", "RollingBack">>,
     <<"Committing", "Released">>, <<"RollingBack", "Released">>}

FailureEdges ==
    {<<"Connecting", "Released">>, <<"Connecting", "RollingBack">>,
     <<"Committing", "RollingBack">>}

\* C7 as stated: an invocation takes only the transitions Idle ->
\* Connecting -> TransactionOpen -> (Committing -> Released | RollingBack ->
\* Released).
C7_OnlySpecEdges ==
    [][Phase' = Phase \/ <<Phase, Phase'>> \in SpecEdges \cup BetweenInvocations]_vars

\* C7 amended: besides the transitions of the state machine an invocation
\* takes Connecting -> Released (connect failed, or startTransaction failed
\* with the flag clear), Connecting -> RollingBack (startTransaction failed
\* with the flag set) and Committing -> RollingBack (commit failed), and no
\* other; an invocation whose store calls and steps settle reaches Released.
C7_StateMachine ==
    /\ [][Phase' = Phase
          \/ <<Phase, Phase'>> \in SpecEdges \cup FailureEdges \cup BetweenInvocations]_vars
    /\ (Phase \notin {"Idle", "Released"}) ~> (Phase = "Released")

C7_Witness ==
    /\ Delivered /\ Phase = "Released"
    /\ firstError.at = "commit" /\ calls.commit = 1 /\ calls.rollback = 1

\* C8: on success executeDependent returns the value of the i-th step at
\* position i; commit is issued once, only when every step of the list has
\* returned, and never on a path where a step threw.
C8_OrderedResultsOneCommit ==
    IsDependent =>
        /\ calls.commit <= 1
        /\ calls.commit = 1 =>
              /\ ~StepThrew
              /\ Len(stepLog) = nOps
              /\ running = {}
        /\ (Delivered /\ ret.kind = "ok") =>
              /\ calls.commit = 1
              /\ Len(ret.value) = nOps
              /\ \A i \in 1..nOps : stepLog[i].step = i /\ ret.value[i] = stepLog[i].val

C8_Witness ==
    /\ Delivered /\ IsDependent /\ ret.kind = "ok" /\ nOps = 3
    /\ ret.value[1] # ret.value[2] /\ ret.value[2] = ret.value[3]
    /\ calls.commit = 1

\* C9: when step k of executeDependent fails, the failure the caller
\* receives names step k, k being the number of steps that returned plus
\* one, and carries the message of the step's own failure.
C9_FailingStepIdentified ==
    (Delivered /\ IsDependent /\ StepThrew) =>
        LET k == Len(stepLog)
            okCount == Cardinality({j \in DOMAIN stepLog : stepLog[j].out = "ok"})
        IN /\ stepLog[k].step = k
           /\ k = okCount + 1
           /\ ret.kind = "fail"
           /\ ret.error.msg =
                <<"Dependent", "transaction", "failed", "at", "step", Digits[k], ":">>
                    \o stepLog[k].msg

\* every run of the step threw a retryable conflict, and that conflict is
\* what the attempts were rejected with, the last one included
AlwaysConflict ==
    /\ \A k \in DOMAIN stepLog : stepLog[k].out = "throw" /\ stepLog[k].msg = MsgDeadlock
    /\ ret.error = MkError(MsgDeadlock, "step")

IsRetry == op = "executeWithRetry"

\* C11: with 3 attempts, base delay retryDelayMs and a step that always
\* raises a conflict, executeWithRetry waits retryDelayMs, 2 * retryDelayMs
\* and 4 * retryDelayMs.
C11_ThreeDelays ==
    (Delivered /\ IsRetry /\ maxRetries = 3 /\ AlwaysConflict) =>
        delays = <<retryDelayMs, 2 * retryDelayMs, 4 * retryDelayMs>>

\* C12: during a backoff delay the unit of work holds no connection and no
\* open transaction: the failed attempt was rolled back and its QueryRunner
\* released before the delay began, and the next QueryRunner is created
\* only when the delay is over.
C12_NothingHeldInDelay ==
    pc = "delay" =>
        /\ qr.released = 1
        /\ ~qr.isTransactionActive
        /\ txWrites = {}
        /\ calls.connect = 1 /\ calls.release = 1
        /\ firstError.at \in {"step", "commit"} => calls.rollback = 1

C12_Witness ==
    /\ pc = "delay" /\ attempt = 2 /\ Len(delays) = 2
    /\ firstError.at = "step" /\ calls.rollback = 1 /\ qr.released = 1

C14_ValidationNeverRetried ==
    (IsRetry /\ \E k \in DOMAIN stepLog :
                    stepLog[k].out = "throw" /\ stepLog[k].msg \in ValidationMsgs) =>
        /\ Len(stepLog) = 1
        /\ pc # "delay"

\* C15: an attempt rejected with a failure the classifier does not accept,
\* or the attempt that uses up the budget, ends executeWithRetry at once:
\* that failure is delivered, with no delay and no further attempt.
C15_PropagateAtOnce ==
    [][(pc = "release" /\ IsRetry /\ err # NoError
          /\ (~isDeadlockError(err) \/ attempt >= maxRetries)) =>
             /\ pc' = "done"
             /\ ret' = [kind |-> "fail", value |-> <<>>, error |-> err]
             /\ delays' = delays
             /\ attempt' = attempt
             /\ stepLog' = stepLog]_vars

C15_Witness ==
    /\ Delivered /\ IsRetry /\ maxRetries = 3 /\ attempt = 3
    /\ ret.error = MkError(MsgDeadlock, "step")
    /\ Len(delays) = 2 /\ Len(stepLog) = 3

\* ------------------------------------------------- claims on nested calls
NestedReturned == npc = "returned"
LastNested == nlog[Len(nlog)]
\* the nested calls whose SAVEPOINT statement resolved
Created == {k \in DOMAIN nlog : nlog[k].sp # "requested"}

\* C16: when a nested execute call (same context, outer transaction active)
\* fails, the rows the outer transaction wrote before the nested call are
\* still pending in it, the outer transaction is still open and un-rolled-back,
\* a commit that follows makes those rows durable, and the nested callback's
\* row is gone once ROLLBACK TO SAVEPOINT resolved.
C16_OuterIntact ==
    /\ (NestedReturned /\ nret.kind = "fail" /\ pc = "inStep") =>
          /\ LastNested.before \subseteq txWrites
          /\ qr.isTransactionActive
          /\ calls.rollback = 0
          /\ LastNested.rollbackTo = "ok" => NestedEffect(Len(nlog)) \notin txWrites
    /\ (Delivered /\ ret.kind = "ok") =>
          \A k \in DOMAIN nlog : nlog[k].before \subseteq store

\* C17: a nested execute call whose context identifies the active transaction
\* runs its callback inside a savepoint of that transaction, on the parent's
\* queryRunner; no step of the nested call connects, begins, commits, rolls
\* back or releases the parent's queryRunner, the queryRunner the nested call
\* created is never connected and is released once, and the parent stays
\* active and un-rolled-back whether the nested call succeeds or fails.
C17_ParentUntouched ==
    [][npc' # npc =>
          /\ qr' = qr
          /\ calls' = calls
          /\ store' = store
          /\ pc' = pc
          /\ qr'.isTransactionActive
          /\ qr'.released = 0
          /\ calls'.commit = 0
          /\ calls'.rollback = 0
          /\ ~nqr'.connected
          /\ ~nqr'.isTransactionActive
          /\ nqr'.released = (IF npc' = "returned" THEN 1 ELSE 0)
          /\ npc' = "inner" => LatestNamed(savepoints', nlog'[Len(nlog')].name) > 0
          /\ npc = "inner" => NestedEffect(Len(nlog)) \in txWrites']_vars
C17_Witness ==
    /\ NestedReturned /\ Len(nlog) = 2
    /\ nlog[1].sp = "released" /\ nlog[2].sp = "rolledBack"
    /\ qr.isTransactionActive /\ calls.rollback = 0 /\ nqr.released = 1

\* C18 as stated: when the parent's commit or rollback is issued, every
\* savepoint a nested call opened has been released or rolled back to.
C18_ResolvedBeforeParentEnds ==
    (calls.commit > 0 \/ calls.rollback > 0) =>
        \A k \in Created : nlog[k].sp \in {"released", "rolledBack"}

\* C18 amended: when the parent's commit or rollback is issued, no nested call
\* is in flight and every savepoint a nested call opened has been released or
\* has had ROLLBACK TO SAVEPOINT issued for it (resolved or rejected); once
\* the parent transaction has ended the store holds no savepoint of it.
C18_ResolvedOrAttempted ==
    /\ (calls.commit > 0 \/ calls.rollback > 0) =>
          /\ npc \in {"none", "returned"}
          /\ \A k \in Created :
                \/ nlog[k].sp \in {"released", "rolledBack"}
                \/ nlog[k].sp = "open" /\ nlog[k].rollbackTo = "rejected"
    /\ (pc \in {"release", "done"} /\ ~qr.isTransactionActive) => savepoints = <<>>
C18_Witness ==
    /\ Delivered /\ ret.kind = "ok" /\ Len(nlog) = 2
    /\ nlog[1].sp = "released"
    /\ nlog[2].sp = "open" /\ nlog[2].rollbackTo = "rejected"
    /\ savepoints = <<>>

\* C19: when the callback run inside a savepoint throws, ROLLBACK TO SAVEPOINT
\* is issued for that savepoint and the step that made the nested call
\* receives the callback's error, also when ROLLBACK TO SAVEPOINT was rejected.
C19_OriginalStepFailure ==
    (NestedReturned /\ LastNested.step = "throw") =>
        /\ LastNested.sp \in {"open", "rolledBack"}
        /\ LastNested.rollbackTo \in {"ok", "rejected"}
        /\ LastNested.sp = "rolledBack" <=> LastNested.rollbackTo = "ok"
        /\ nret = [kind |-> "fail", value |-> <<>>,
                   error |-> MkError(LastNested.msg, "nested")]
        /\ LastNested.msg \in NestedMsgs
C19_Witness ==
    /\ NestedReturned /\ LastNested.step = "throw"
    /\ LastNested.rollbackTo = "rejected"
    /\ nret.error = MkError(MsgNotFound, "nested")

\* C20: any two savepoints created within the same enclosing transaction have
\* distinct names.
C20_DistinctNames ==
    \A j, k \in Created : j # k => nlog[j].name # nlog[k].name

\* ------------------------------------------- claims on several callers
\* the calls that run their step on a queryRunner another call created
Attached == {c \in Callers : ccall[c].on \notin {"none", c}}

\* C21: a connection is exclusively owned by the unit of work that opened it:
\* in every interleaving of calls on one manager, a call runs its step on the
\* queryRunner of another call only if it was made from that call's step.
C21_ExclusiveConnection ==
    \A c \in Attached : ccall[c].parent = ccall[c].on

\* C22: a call to execute with a context whose registered queryRunner has been
\* released opens a connection and a transaction of its own.
C22_NoUseAfterRelease ==
    [][\A c \in Callers :
          (cpc[c] = "idle" /\ cpc'[c] # "idle" /\ ccall'[c].method = "execute"
             /\ ConcExisting(ccall'[c].ctx) # "none"
             /\ crun[ConcExisting(ccall'[c].ctx)].released > 0)
          => cpc'[c] = "connect" /\ ccall'[c].on = c]_vars

\* a register request whose arguments passed the guard of line 46
ValidRegister(p) ==
    /\ sreq[p].op = "register"
    /\ sreq[p].email # ""
    /\ sreq[p].password # ""

\* C23: two registrations with the same email, one of which found the email
\* free: once both are answered exactly one was answered 201 and stored the
\* user, the other failed its check with 'User already exists', and exactly
\* one user has the email.
C23_OneRegistrationWins ==
    \A p \in Clients : \A q \in Clients \ {p} :
        ( /\ spc[p] = "done" /\ spc[q] = "done"
          /\ ValidRegister(p) /\ ValidRegister(q)
          /\ sreq[p].email = sreq[q].email
          /\ (sres[p] # <<>> \/ sres[q] # <<>>) )
        => /\ \E w \in {p, q} : \E l \in {p, q} \ {w} :
                 /\ shttp[w] = HTTP_CREATED
                 /\ serr[l].cause = MsgUserExists
           /\ Cardinality({u \in dbUsers : u.email = sreq[p].email}) = 1

\* C24: every committed todo refers to an existing user, and a createTodo
\* whose user validation failed leaves no todo referring to that user id.
C24_NoOrphanedTodos ==
    /\ \A t \in dbTodos : \E u \in dbUsers : u.id = t.authorId
    /\ \A p \in Clients :
          (sreq[p].op = "createTodo" /\ serr[p].cause = MsgNotFound)
          => \A t \in dbTodos : t.authorId # sreq[p].userId

\* one createTodo was answered after its validation failed on a deleted user
\* while another client's todo is committed
C24_Witness ==
    \E p \in Clients : \E q \in Clients \ {p} :
        /\ sreq[p].op = "createTodo" /\ spc[p] = "done"
        /\ serr[p].cause = MsgNotFound
        /\ sreq[p].userId \in {u.id : u \in StoredUsers}
        /\ \E t \in dbTodos : t.id = q

\* the isolation levels a caller can request
IsolationLevels == {"READ UNCOMMITTED", "READ COMMITTED", "REPEATABLE READ", "SERIALIZABLE"}

\* a database that honours READ UNCOMMITTED with dirty reads
DirtyReadPossible_ReadUncommitted(level) == level = "READ UNCOMMITTED"
\* type: 'postgres': READ UNCOMMITTED is run as READ COMMITTED, no level
\* lets a transaction read rows another transaction has not committed
DirtyReadPossible(level) == FALSE

\* the rows a statement of another transaction running at level can read
Observed(level) ==
    IF DirtyReadPossible(level) THEN store \cup txWrites ELSE store

MaxRetriesAtStart == IF replaced.call = callNo THEN replaced.maxRetries ELSE maxRetries
RetryDelayMsAtStart == IF replaced.call = callNo THEN replaced.retryDelayMs ELSE retryDelayMs

\* C26: an executeWithRetry call keeps the attempt budget and the base delay
\* that were in force when it started, whatever setRetryConfig is called
\* with while it is in flight: it runs the step at most that many times,
\* that many times when every run raises a conflict, and its k-th delay is
\* that base delay doubled k-1 times.
C26_ConfigurationAtStartKept ==
    IsRetry =>
        /\ Len(stepLog) <= MaxRetriesAtStart
        /\ (Delivered /\ AlwaysConflict) => Len(stepLog) = MaxRetriesAtStart
        /\ \A k \in DOMAIN delays : delays[k] = BackoffDelay(RetryDelayMsAtStart, k)

\* C27: a register request with a non-empty email and password, whose email
\* check passed and beside which no other registration runs, is answered 201
\* once it is done, and exactly one user has the email, with the hash of
\* the password as its password.
C27_RegisterCreatesUser ==
    \A p \in Clients :
        ( /\ spc[p] = "done"
          /\ ValidRegister(p)
          /\ sres[p] # <<>>
          /\ \A q \in Clients \ {p} : sreq[q].op # "register" )
        => /\ shttp[p] = HTTP_CREATED
           /\ {u.password : u \in {v \in dbUsers : v.email = sreq[p].email}}
                 = {Hash(sreq[p].password)}
           /\ Cardinality({u \in dbUsers : u.email = sreq[p].email}) = 1

\* C28: a request whose executeDependent step failed validation is answered
\* with the status of that failure: 404 for 'User not found', 409 for
\* 'User already exists'.
C28_ValidationStatus ==
    \A p \in Clients :
        spc[p] = "done" =>
           /\ serr[p].cause = MsgNotFound => shttp[p] = HTTP_NOT_FOUND
           /\ serr[p].cause = MsgUserExists => shttp[p] = HTTP_CONFLICT

\* C29: the k-th backoff delay of executeWithRetry lasts
\* retryDelayMs * 2^(k-1) ms, and there are delays only after attempts
\* before the last one.
C29_BackoffDelays ==
    /\ Len(timers) = attempt
    /\ timers # <<>> => attempt < maxRetries
    /\ \A k \in DOMAIN timers :
          /\ timers[k] % (2 ^ (k - 1)) = 0
          /\ timers[k] \div (2 ^ (k - 1)) = retryDelayMs

\* the calls made from inside a step of a call whose transaction is open
Nested == {c \in Callers : ccall[c].method = "executeDependent" /\ ccall[c].parent # "none"}

\* C30: an executeDependent call made from inside a step of an open
\* transaction works on its own QueryRunner, never on the outer one, and
\* what it committed stays committed when the outer transaction ends,
\* rolled back or not.
C30_DependentOwnTransaction ==
    /\ \A c \in Nested : ccall[c].on = c /\ cpc[c] \notin {"savepoint", "spStep"}
    /\ \A c \in Nested :
          (cpc[c] \in {"release", "done"} /\ cerr[c] = "none") => c \in cstore

\* the inner executeDependent committed, then the outer call rolled back
C30_Witness ==
    \E c \in Nested :
        /\ cpc[c] = "done" /\ cerr[c] = "none" /\ c \in cstore
        /\ cpc[ccall[c].parent] \in {"release", "done"}
        /\ cerr[ccall[c].parent] # "none"
        /\ ccall[c].parent \notin cstore

\* C31: when a step of the executeDependent call inside the retried step
\* fails with a deadlock, executeWithRetry gives up only once the attempt
\* budget is used up, each attempt runs the step list from step 1, and
\* no row of a failed attempt is committed.
C31_DependentDeadlockRetried ==
    /\ (IsRetry /\ Delivered /\ dlog # <<>> /\ dlog[Len(dlog)].msg = MsgDeadlock)
         => attempt = maxRetries
    /\ \A k \in DOMAIN dlog :
          (k = 1 \/ dlog[k - 1].att # dlog[k].att) => dlog[k].step = 1
    /\ \A w \in store : \A k \in DOMAIN dlog :
          (dlog[k].att = w[2]) => dlog[k].out = "ok"

\* the deleted todos among rows
Deleted(rows) == {t \in rows : t.status = "DELETED"}

\* client p asked for todo t of its own, and its transaction has read the table
AskedFor(p, t) ==
    /\ sreq[p].op \in {"getTodoById", "updateTodo", "deleteTodo"}
    /\ stx[p].snapshot
    /\ t.id = sreq[p].todoId
    /\ \E u \in stx[p].users : u.id = sreq[p].userId

SucceededAfter(k) ==
    /\ Len(stepLog) = k + 1
    /\ \A j \in 1..k :
          /\ stepLog[j].out = "throw"
          /\ stepLog[j].att = j
          /\ isDeadlockError(MkError(stepLog[j].msg, "step"))
    /\ stepLog[k + 1].out = "ok"
    /\ stepLog[k + 1].att = k + 1
    /\ firstError = NoError

\* C33: when the step throws a retryable conflict in its first k attempts
\* and attempt k+1 succeeds, executeWithRetry has made exactly k+1 attempts
\* and k delays, returns the value of attempt k+1, and of this call only
\* the row of attempt k+1 is committed; every attempt starts on a new
\* QueryRunner with nothing pending, and a successful attempt is the last.
C33_SuccessAfterConflicts ==
    /\ [](\A k \in 0..(maxRetries - 1) :
            (IsRetry /\ Delivered /\ SucceededAfter(k)) =>
               /\ attempt = k + 1
               /\ Len(delays) = k
               /\ ret = [kind |-> "ok", value |-> <<stepLog[k + 1].val>>, error |-> NoError]
               /\ {w \in store : w[1] = callNo} = {<<callNo, k + 1, 1>>})
    /\ [][(IsRetry /\ pc = "delay" /\ pc' # "delay" /\ pc' # "done")
            => qr' = NewQueryRunner /\ txWrites' = {} /\ pc' = "connect"]_vars
    /\ [][(IsRetry /\ pc = "release" /\ err = NoError /\ pc' # "release")
            => pc' = "done" /\ attempt' = attempt /\ delays' = delays]_vars

\* two conflicts, then success on the third attempt
C33_Witness ==
    /\ IsRetry /\ Delivered /\ SucceededAfter(2)
    /\ attempt = 3 /\ ret.kind = "ok"
    /\ <<callNo, 3, 1>> \in store

\* queryRunner.connect() or queryRunner.startTransaction() rejected in an
\* execute or executeDependent call
SetupFailed ==
    /\ op \in {"execute", "executeDependent"}
    /\ firstError.at \in {"connect", "begin"}

\* C34: after connect or startTransaction has failed in execute or
\* executeDependent, no step has run, neither commit nor rollback has been
\* issued, release is issued once, and the caller receives the connect/begin
\* failure itself (no step index in its message).
C34_SetupFailurePropagates ==
    SetupFailed =>
        /\ stepLog = <<>> /\ idx = 0
        /\ calls.commit = 0 /\ calls.rollback = 0
        /\ calls.release <= 1
        /\ Delivered =>
              /\ calls.release = 1
              /\ ret = [kind |-> "fail", value |-> <<>>, error |-> firstError]

\* executeDependent([]) is in flight or has just settled
EmptyDependent == op = "executeDependent" /\ nOps = 0

\* C35: executeDependent with an empty operations array runs no step and
\* writes nothing; when its connect, startTransaction and commitTransaction
\* resolve it has issued exactly one of each and no rollback, has released
\* the QueryRunner once, and it resolves with the empty results array.
C35_EmptyDependent ==
    EmptyDependent =>
        /\ pc # "inStep" /\ idx = 0 /\ stepLog = <<>>
        /\ results = <<>> /\ txWrites = {}
        /\ calls.connect = 1 /\ calls.begin <= 1
        /\ calls.commit <= 1 /\ calls.release <= 1
        /\ (Delivered /\ firstError = NoError) =>
              /\ calls = [connect |-> 1, begin |-> 1, commit |-> 1,
                           rollback |-> 0, release |-> 1]
              /\ ret = [kind |-> "ok", value |-> <<>>, error |-> NoError]

\* the empty executeDependent call resolved
C35_Witness ==
    /\ EmptyDependent /\ Delivered
    /\ ret.kind = "ok" /\ ret.value = <<>>
    /\ calls.commit = 1 /\ calls.release = 1

\* ------------------------------------------- setRetryConfig, any number
\* setRetryConfig(maxRetries: number, ...) takes negative numbers as well
AnyBudgetNext ==
    \/ \E m \in (0 - MaxBelowZero)..MaxRetryConfig, d \in DelayChoices : SetRetryConfig(m, d)
    \/ Next

AnyBudgetSpec == Init /\ [][AnyBudgetNext]_vars

\* setRetryConfig left a budget with no attempt in it
NoAttemptBudget == maxRetries <= 0

============================================================================
